---- MODULE Spec2Model ----
(***************************************************************************)
(* msgspec-ext: settings loaded from environment variables into a          *)
(* dynamically created msgspec.Struct (src/src/msgspec_ext/settings.py).   *)
(*                                                                         *)
(* Python strings are sequences of one-character strings, so that upper(), *)
(* lower(), int() and startswith() are computed character by character.    *)
(* Python values are tagged records [t |-> <type>, v |-> <value>].         *)
(***************************************************************************)
EXTENDS Integers, Sequences, FiniteSets, TLC

VARIABLES
    struct_class_cache,  \* BaseSettings._struct_class_cache: class name -> Struct class
    encoder_cache,       \* BaseSettings._encoder_cache: Struct class id -> Encoder
    decoder_cache,       \* BaseSettings._decoder_cache: Struct class id -> Decoder
    loaded_env_files,    \* BaseSettings._loaded_env_files: set of absolute paths
    environ,             \* os.environ: variable name -> raw string
    fs,                  \* the filesystem: absolute path -> content of a .env file
    next_id,             \* identity of the next object the interpreter allocates
    last,                \* the last call of a settings class and what it returned or raised
    held,                \* the settings instance the application keeps a reference to
    calls,               \* number of constructions so far
    app_ops,             \* number of other application actions (environment, files, attributes)
    load_count,          \* absolute path -> number of load_dotenv calls made for it
    requests,            \* absolute path -> the classes whose _load_env_files asked for it, in order
    compile_count,       \* class name -> number of _create_struct_class calls
    pc,                  \* thread -> position in BaseSettings.__new__
    frame,               \* thread -> local variables of its call
    decl,                \* a class declaration handed to _create_struct_class
    compiled,            \* the Struct class compiled from decl
    input,               \* the arguments of a function called on its own
    output               \* what that call returned or raised

vars == <<struct_class_cache, encoder_cache, decoder_cache, loaded_env_files,
          environ, fs, next_id, last, held, calls, app_ops, load_count, requests,
          compile_count, pc, frame, decl, compiled, input, output>>

\* ------------------------------------------------------------------ bounds

MaxFields == 3
MaxCalls == 3
MaxAppOps == 1
NThreads == 2
MaxRawLen == 2
MaxLuhnLen == 3
MaxFileOps == 2

\* ----------------------------------------------------------------- strings

LowerLetters ==
    <<"a","b","c","d","e","f","g","h","i","j","k","l","m",
      "n","o","p","q","r","s","t","u","v","w","x","y","z">>

UpperLetters ==
    <<"A","B","C","D","E","F","G","H","I","J","K","L","M",
      "N","O","P","Q","R","S","T","U","V","W","X","Y","Z">>

ToUpper == [c \in {LowerLetters[i] : i \in 1..26} |->
                UpperLetters[CHOOSE i \in 1..26 : LowerLetters[i] = c]]

ToLower == [c \in {UpperLetters[i] : i \in 1..26} |->
                LowerLetters[CHOOSE i \in 1..26 : UpperLetters[i] = c]]

\* str.upper() and str.lower(), one character at a time: a letter changes case,
\* every other character is kept.
upper_char(c) == IF c \in DOMAIN ToUpper THEN ToUpper[c] ELSE c

lower_char(c) == IF c \in DOMAIN ToLower THEN ToLower[c] ELSE c

upper(s) == [i \in 1..Len(s) |-> upper_char(s[i])]

\* A lower() that leaves the string as it is.
Mut_lower(s) == s

lower(s) == [i \in 1..Len(s) |-> lower_char(s[i])]

\* ------------------------------------------------------------ Python values

PyStr(s) == [t |-> "str", v |-> s]
PyInt(n) == [t |-> "int", v |-> n]
PyBool(b) == [t |-> "bool", v |-> b]
PyFloat(x) == [t |-> "float", v |-> x]
PyList(l) == [t |-> "list", v |-> l]
NoDefault == [t |-> "NODEFAULT"]
None == [t |-> "None"]

\* ------------------------------------------------------- names and literals

N_app_name == <<"a","p","p","_","n","a","m","e">>
N_debug == <<"d","e","b","u","g">>
N_max_connections ==
    <<"m","a","x","_","c","o","n","n","e","c","t","i","o","n","s">>
N_model_config == <<"m","o","d","e","l","_","c","o","n","f","i","g">>
N_extra == <<"e","x","t","r","a">>

E_APP_NAME == <<"A","P","P","_","N","A","M","E">>
E_DEBUG == <<"D","E","B","U","G">>
E_MAX_CONNECTIONS ==
    <<"M","A","X","_","C","O","N","N","E","C","T","I","O","N","S">>

S_svc == <<"s","v","c">>
S_x == <<"x">>
S_true == <<"t","r","u","e">>
S_True == <<"T","r","u","e">>
S_no == <<"n","o">>
S_200 == <<"2","0","0">>
S_abc == <<"a","b","c">>

\* -------------------------------------------------------- class declarations

SettingsConfigDict(env_file, case_sensitive, env_prefix) ==
    [env_file |-> env_file, env_file_encoding |-> "utf-8",
     case_sensitive |-> case_sensitive, env_prefix |-> env_prefix,
     env_nested_delimiter |-> "__"]

Annotation(n, ty) == [name |-> n, type |-> ty]

\* hasattr(cls, field_name) / getattr(cls, field_name): the class body's attributes,
\* and model_config, which every class inherits from BaseSettings.
hasattr(cls, n) == n \in DOMAIN cls.attrs \/ n = N_model_config

getattr(cls, n) ==
    IF n \in DOMAIN cls.attrs THEN cls.attrs[n] ELSE [t |-> "SettingsConfigDict"]

\* ------------------------------------------------------------ schema compiler

required_fields(cls) ==
    LET named == SelectSeq(cls.annotations, LAMBDA a : a.name # N_model_config)
        req == SelectSeq(named, LAMBDA a : ~hasattr(cls, a.name))
    IN  [i \in 1..Len(req) |->
            [name |-> req[i].name, type |-> req[i].type,
             has_default |-> FALSE, default |-> NoDefault]]

optional_fields(cls) ==
    LET named == SelectSeq(cls.annotations, LAMBDA a : a.name # N_model_config)
        opt == SelectSeq(named, LAMBDA a : hasattr(cls, a.name))
    IN  [i \in 1..Len(opt) |->
            [name |-> opt[i].name, type |-> opt[i].type,
             has_default |-> TRUE, default |-> getattr(cls, opt[i].name)]]

\* A compiler that keeps the declaration order (no partition).
Mut_struct_fields(cls) ==
    LET named == SelectSeq(cls.annotations, LAMBDA a : a.name # N_model_config)
    IN  [i \in 1..Len(named) |->
            [name |-> named[i].name, type |-> named[i].type,
             has_default |-> hasattr(cls, named[i].name),
             default |-> IF hasattr(cls, named[i].name)
                         THEN getattr(cls, named[i].name) ELSE NoDefault]]

struct_fields(cls) == required_fields(cls) \o optional_fields(cls)

\* msgspec.defstruct(cls.__name__, fields, kw_only=True): a new Struct class, with
\* no helper method yet. frozen is not passed, so it keeps defstruct's default.
defstruct(name, fields, id) ==
    [id |-> id, name |-> name, fields |-> fields, kw_only |-> TRUE,
     frozen |-> FALSE, methods |-> {}]

HelperMethods == {"model_dump", "model_dump_json", "schema"}

_inject_helper_methods(struct_cls) ==
    [struct_cls EXCEPT !.methods = @ \cup HelperMethods]

\* A compiler that hands the Struct class back before the helpers are injected.
Mut__create_struct_class(cls, id) == defstruct(cls.name, struct_fields(cls), id)

_create_struct_class(cls, id) ==
    _inject_helper_methods(defstruct(cls.name, struct_fields(cls), id))

\* ----------------------------------------------------------------- field types
\* A type annotation is the sequence of its alternatives: <<"int">> is int,
\* <<"int", "None">> is Optional[int] (typing.Union[int, None]). A union written
\* with the | operator ends with "|": <<"int", "None", "|">> is int | None.

T_str == <<"str">>
T_bool == <<"bool">>
T_int == <<"int">>
T_opt_int == <<"int", "None">>
T_float == <<"float">>

\* get_origin(field_type) is Union: typing.get_origin gives typing.Union for
\* Optional[X] and Union[X, Y], and types.UnionType for X | Y (Python 3.10 to 3.13,
\* where the two are different objects).
get_origin_is_Union(field_type) ==
    Len(field_type) > 1 /\ field_type[Len(field_type)] # "|"

\* -------------------------------------------------------------- naming policy

\* A naming policy that uppercases the prefix together with the name.
Mut_fold__get_env_name(cls, field_name) ==
    IF ~cls.model_config.case_sensitive
    THEN upper(cls.model_config.env_prefix \o field_name)
    ELSE cls.model_config.env_prefix \o field_name

\* A naming policy that forgets to uppercase.
Mut__get_env_name(cls, field_name) ==
    IF cls.model_config.env_prefix # <<>>
    THEN cls.model_config.env_prefix \o field_name
    ELSE field_name

_get_env_name(cls, field_name) ==
    LET cased == IF ~cls.model_config.case_sensitive
                 THEN upper(field_name) ELSE field_name
    IN  IF cls.model_config.env_prefix # <<>>
        THEN cls.model_config.env_prefix \o cased
        ELSE cased

\* --------------------------------------------------------------- value coercer

Whitespace == {" ", "\t", "\n"}

Digits == <<"0","1","2","3","4","5","6","7","8","9">>

DigitOf == [c \in {Digits[d] : d \in 1..10} |-> (CHOOSE d \in 1..10 : Digits[d] = c) - 1]

IsDigit(c) == c \in DOMAIN DigitOf

DigitValue(c) == DigitOf[c]

RECURSIVE lstrip(_)
lstrip(s) ==
    IF s # <<>> /\ Head(s) \in Whitespace THEN lstrip(Tail(s)) ELSE s

RECURSIVE rstrip(_)
rstrip(s) ==
    IF s # <<>> /\ s[Len(s)] \in Whitespace
    THEN rstrip(SubSeq(s, 1, Len(s) - 1)) ELSE s

\* A strip() that leaves the string as it is.
Mut_strip(s) == s

strip(s) == rstrip(lstrip(s))

RECURSIVE digits_value(_, _)
digits_value(s, acc) ==
    IF s = <<>> THEN acc
    ELSE IF Head(s) = "_" THEN digits_value(Tail(s), acc)
    ELSE digits_value(Tail(s), 10 * acc + DigitValue(Head(s)))

\* int(env_value): surrounding whitespace, an optional sign, then decimal digits
\* with single underscores between digits. ok = FALSE is Python's ValueError.
py_int(s) ==
    LET t == strip(s)
        signed == t # <<>> /\ Head(t) \in {"+", "-"}
        body == IF signed THEN Tail(t) ELSE t
        wellformed ==
            /\ body # <<>>
            /\ \A i \in 1..Len(body) :
                \/ IsDigit(body[i])
                \/ /\ body[i] = "_"
                   /\ i > 1 /\ i < Len(body)
                   /\ IsDigit(body[i - 1]) /\ IsDigit(body[i + 1])
    IN  IF ~wellformed THEN [ok |-> FALSE]
        ELSE [ok |-> TRUE,
              v |-> IF signed /\ Head(t) = "-"
                    THEN 0 - digits_value(body, 0)
                    ELSE digits_value(body, 0)]

\* A run of decimal digits with single underscores between digits.
digit_run(body) ==
    /\ body # <<>>
    /\ \A i \in 1..Len(body) :
        \/ IsDigit(body[i])
        \/ /\ body[i] = "_"
           /\ i > 1 /\ i < Len(body)
           /\ IsDigit(body[i - 1]) /\ IsDigit(body[i + 1])

digit_count(body) == Cardinality({i \in 1..Len(body) : IsDigit(body[i])})

\* A decimal m * 10^e without trailing zeros in m.
RECURSIVE decimal(_, _)
decimal(m, e) ==
    IF m = 0 THEN [m |-> 0, e |-> 0]
    ELSE IF m % 10 = 0 THEN decimal(m \div 10, e + 1)
    ELSE [m |-> m, e |-> e]

\* float(env_value): surrounding whitespace, an optional sign, then inf, infinity
\* or nan in any case, or a decimal literal (digits, ".", digits, either side of the
\* "." may be missing but not both) with an optional exponent. The value is kept
\* as the exact decimal the literal denotes; rounding to a double is left out.
\* ok = FALSE is Python's ValueError.
py_float(s) ==
    LET first(body, ch) ==
            LET at == {i \in 1..Len(body) : body[i] = ch}
            IN  IF at = {} THEN Len(body) + 1 ELSE CHOOSE i \in at : \A j \in at : i <= j
        signed(x) == x # <<>> /\ Head(x) \in {"+", "-"}
        unsigned(x) == IF signed(x) THEN Tail(x) ELSE x
        exp_value(exponent) ==
            IF signed(exponent) /\ Head(exponent) = "-"
            THEN 0 - digits_value(Tail(exponent), 0)
            ELSE digits_value(unsigned(exponent), 0)
        literal(negative, whole, fraction, has_exp, exponent) ==
            IF ~ /\ whole = <<>> \/ digit_run(whole)
                 /\ fraction = <<>> \/ digit_run(fraction)
                 /\ whole # <<>> \/ fraction # <<>>
                 /\ ~has_exp \/ digit_run(unsigned(exponent))
            THEN [ok |-> FALSE]
            ELSE [ok |-> TRUE,
                  v |-> [negative |-> negative,
                         abs |-> decimal(digits_value(whole \o fraction, 0),
                                         (IF has_exp THEN exp_value(exponent) ELSE 0)
                                             - digit_count(fraction))]]
        at_dot(negative, mantissa, dot, has_exp, exponent) ==
            literal(negative, SubSeq(mantissa, 1, dot - 1),
                    SubSeq(mantissa, dot + 1, Len(mantissa)), has_exp, exponent)
        at_e(negative, body, epos) ==
            at_dot(negative, SubSeq(body, 1, epos - 1),
                   first(SubSeq(body, 1, epos - 1), "."),
                   epos <= Len(body), SubSeq(body, epos + 1, Len(body)))
        value(negative, body) ==
            IF body \in { <<"i","n","f">>, <<"i","n","f","i","n","i","t","y">> }
            THEN [ok |-> TRUE, v |-> [special |-> IF negative THEN "-inf" ELSE "inf"]]
            ELSE IF body = <<"n","a","n">>
            THEN [ok |-> TRUE, v |-> [special |-> "nan"]]
            ELSE at_e(negative, body, first(body, "e"))
        t == lower(strip(s))
    IN  value(signed(t) /\ Head(t) = "-", unsigned(t))

TrueStrings ==
    { <<"t","r","u","e">>, <<"1">>, <<"y","e","s">>, <<"y">>, <<"t">> }

\* A test for "{" and "[" that no string passes.
Mut_startswith(s, prefixes) == FALSE

startswith(s, prefixes) == s # <<>> /\ Head(s) \in prefixes

JsonError == [t |-> "DecodeError"]

RECURSIVE json_int_list(_, _, _)
json_int_list(s, cur, acc) ==
    \* the elements of "d,d,...,d]" (digits only), or <<JsonError>> when malformed
    IF s = <<>> THEN <<JsonError>>
    ELSE IF IsDigit(Head(s))
         THEN IF cur = <<>> /\ Head(s) = "0" /\ Len(s) > 1 /\ IsDigit(s[2])
              THEN <<JsonError>>
              ELSE json_int_list(Tail(s), Append(cur, Head(s)), acc)
    ELSE IF Head(s) = "," /\ cur # <<>>
         THEN json_int_list(Tail(s), <<>>, Append(acc, PyInt(digits_value(cur, 0))))
    ELSE IF Head(s) = "]" /\ cur # <<>> /\ Len(s) = 1
         THEN Append(acc, PyInt(digits_value(cur, 0)))
    ELSE <<JsonError>>

\* msgspec.json.decode(env_value.encode()) on the literals the model draws: a list of
\* unsigned integers, "[]" or "{}"; anything else here is malformed JSON.
json_decode(s) ==
    IF s = <<"[", "]">> THEN [ok |-> TRUE, v |-> PyList(<<>>)]
    ELSE IF s = <<"{", "}">> THEN [ok |-> TRUE, v |-> [t |-> "dict", v |-> <<>>]]
    ELSE IF s # <<>> /\ Head(s) = "["
         THEN LET r == json_int_list(Tail(s), <<>>, <<>>)
              IN  IF r # <<>> /\ r[Len(r)] = JsonError THEN [ok |-> FALSE]
                  ELSE [ok |-> TRUE, v |-> PyList(r)]
    ELSE [ok |-> FALSE]

Raise(kind, prefix, cause) ==
    [ok |-> FALSE, error |-> [kind |-> kind, msg |-> prefix, cause |-> cause]]

Return(v) == [ok |-> TRUE, v |-> v]

\* An unwrapping that leaves every declared type as it is.
Mut_unwrap_union(field_type) == field_type

unwrap_union(field_type) ==
    LET non_none_types == SelectSeq(field_type, LAMBDA a : a # "None")
    IN  IF get_origin_is_Union(field_type) /\ Len(non_none_types) = 1
        THEN non_none_types ELSE field_type

_preprocess_env_value(env_value, declared_type) ==
    LET field_type == unwrap_union(declared_type)
        as_int == py_int(env_value)
        as_float == py_float(env_value)
        as_json == json_decode(env_value)
    IN  IF field_type = T_bool
        THEN Return(PyBool(lower(env_value) \in TrueStrings))
        ELSE IF field_type = T_int
        THEN IF as_int.ok
             THEN Return(PyInt(as_int.v))
             ELSE Raise("ValueError", "Cannot convert to int",
                        [raw |-> env_value, target |-> "int"])
        ELSE IF field_type = T_float
        THEN IF as_float.ok
             THEN Return(PyFloat(as_float.v))
             ELSE Raise("ValueError", "Cannot convert to float",
                        [raw |-> env_value, target |-> "float"])
        ELSE IF startswith(env_value, {"{", "["})
        THEN IF as_json.ok
             THEN Return(as_json.v)
             ELSE Raise("ValueError", "Invalid JSON in env var",
                        [decode_error |-> JsonError])
        ELSE Return(PyStr(env_value))

\* ----------------------------------------------------------------- schema codec
\* msgspec.json.Encoder().encode(values) and Decoder(type=struct_cls).decode(bytes),
\* at the level of the JSON data model: a dict is encoded to a JSON object whose
\* members keep the dict's order; the decoder walks the members in that order.

json_encode_value(pv) ==
    CASE pv.t = "str" -> [t |-> "string", v |-> pv.v]
      [] pv.t = "int" -> [t |-> "number", v |-> pv.v]
      [] pv.t = "float" -> IF "special" \in DOMAIN pv.v THEN [t |-> "null"]
                           ELSE [t |-> "real", v |-> pv.v]
      [] pv.t = "bool" -> [t |-> IF pv.v THEN "true" ELSE "false"]
      [] pv.t = "None" -> [t |-> "null"]
      [] pv.t = "list" -> [t |-> "array", v |-> pv.v]
      [] OTHER -> [t |-> "object", v |-> pv.v]

encode(values) ==
    [i \in 1..Len(values) |-> <<values[i][1], json_encode_value(values[i][2])>>]

json_type_name(jv) ==
    CASE jv.t = "string" -> "str"
      [] jv.t = "number" -> "int"
      [] jv.t = "real" -> "float"
      [] jv.t \in {"true", "false"} -> "bool"
      [] jv.t = "null" -> "null"
      [] jv.t = "array" -> "array"
      [] OTHER -> "object"

\* Whether a JSON value converts to the field's type. A type that is none of
\* those below (a class of types.py) is a custom type to the decoder: no dec_hook
\* is given, so the decoded value has to be an instance of the class already,
\* and no JSON value decodes to one.
accepts(field_type, jv) ==
    \E i \in 1..Len(field_type) :
        \/ field_type[i] = "str" /\ jv.t = "string"
        \/ field_type[i] = "int" /\ jv.t = "number"
        \/ field_type[i] = "float" /\ jv.t \in {"number", "real"}
        \/ field_type[i] = "bool" /\ jv.t \in {"true", "false"}
        \/ field_type[i] = "None" /\ jv.t = "null"
        \/ field_type[i] = "list" /\ jv.t = "array"
        \/ field_type[i] = "dict" /\ jv.t = "object"

\* The float an integer literal decodes to in a field that takes no int.
int_to_float(n) ==
    PyFloat([negative |-> n < 0, abs |-> decimal(IF n < 0 THEN 0 - n ELSE n, 0)])

json_to_python(jv) ==
    CASE jv.t = "string" -> PyStr(jv.v)
      [] jv.t = "number" -> PyInt(jv.v)
      [] jv.t = "real" -> PyFloat(jv.v)
      [] jv.t = "true" -> PyBool(TRUE)
      [] jv.t = "false" -> PyBool(FALSE)
      [] jv.t = "array" -> PyList(jv.v)
      [] jv.t = "object" -> [t |-> "dict", v |-> jv.v]
      [] OTHER -> None

\* The value a JSON value converts to in a field of the given type.
to_field(field_type, jv) ==
    IF /\ jv.t = "number"
       /\ \E i \in 1..Len(field_type) : field_type[i] = "float"
       /\ \A i \in 1..Len(field_type) : field_type[i] # "int"
    THEN int_to_float(jv.v)
    ELSE json_to_python(jv)

Min(S) == CHOOSE x \in S : \A y \in S : x <= y

field_index(struct_cls, n) ==
    {j \in 1..Len(struct_cls.fields) : struct_cls.fields[j].name = n}

\* Decoder.decode: a member whose name is a field is converted to the field's type
\* (strict: no conversion between JSON types); a member whose name is no field is
\* skipped (the Struct does not forbid unknown fields); then every field that got
\* no member takes its default, or is reported missing when it has none.
decode(struct_cls, json) ==
    LET fields == struct_cls.fields
        mistyped == {i \in 1..Len(json) :
                        \E j \in field_index(struct_cls, json[i][1]) :
                            ~accepts(fields[j].type, json[i][2])}
        given(n) == {i \in 1..Len(json) : json[i][1] = n}
        missing == {j \in 1..Len(fields) :
                        given(fields[j].name) = {} /\ ~fields[j].has_default}
    IN  IF mistyped # {}
        THEN Raise("ValidationError", "Expected type, got another",
                   [field |-> json[Min(mistyped)][1],
                    reason |-> <<"got", json_type_name(json[Min(mistyped)][2])>>])
        ELSE IF missing # {}
        THEN Raise("ValidationError", "Object missing required field",
                   [field |-> fields[Min(missing)].name, reason |-> <<"missing">>])
        ELSE Return([struct |-> struct_cls.id,
                     values |-> [n \in {fields[j].name : j \in 1..Len(fields)} |->
                        LET j == CHOOSE k \in 1..Len(fields) : fields[k].name = n
                        IN  IF given(n) # {}
                            THEN to_field(fields[j].type, json[Min(given(n))][2])
                            ELSE fields[j].default]])

FileOrder == (E_APP_NAME :> 1) @@ (E_DEBUG :> 2) @@ (E_MAX_CONNECTIONS :> 3)

\* ------------------------------------------------------------- the classes
\* The settings classes of the process. AppSettings declares a defaulted field
\* before its required one; WorkerSettings names the same env file by its
\* absolute path.

Cwd == <<"/","a","p","p">>

P_dotenv == <<".","e","n","v">>

P_abs_dotenv == <<"/","a","p","p","/",".","e","n","v">>

AppSettings ==
    [name |-> "AppSettings",
     annotations |-> << Annotation(N_debug, T_bool),
                        Annotation(N_app_name, T_str),
                        Annotation(N_max_connections, T_int) >>,
     attrs |-> (N_debug :> PyBool(FALSE)) @@ (N_max_connections :> PyInt(100)),
     model_config |-> SettingsConfigDict(P_dotenv, FALSE, <<>>)]

WorkerSettings ==
    [name |-> "WorkerSettings",
     annotations |-> << Annotation(N_debug, T_bool),
                        Annotation(N_max_connections, T_int) >>,
     attrs |-> (N_debug :> PyBool(TRUE)),
     model_config |-> SettingsConfigDict(P_abs_dotenv, FALSE, <<>>)]

Classes == {AppSettings, WorkerSettings}

\* ------------------------------------------------------ environment provider

\* str(Path(env_file).absolute()): an absolute path is kept, a relative one is
\* joined to the current directory.
absolute(path) ==
    IF path # <<>> /\ Head(path) = "/" THEN path ELSE Cwd \o <<"/">> \o path

\* env_path.exists()
exists(files, path) == absolute(path) \in DOMAIN files

\* load_dotenv(dotenv_path, encoding): every variable of the file that the
\* environment does not hold yet is set (override is left at its default, False).
load_dotenv(env, content) ==
    [k \in DOMAIN env \cup DOMAIN content |->
        IF k \in DOMAIN env THEN env[k] ELSE content[k]]

\* The variables of an env file, in the order of its lines, with their values.
RECURSIVE SortedNames(_, _)
SortedNames(names, content) ==
    IF names = {} THEN <<>>
    ELSE LET n == CHOOSE x \in names :
                    \A y \in names : FileOrder[x] <= FileOrder[y]
         IN  <<<<n, content[n]>>>> \o SortedNames(names \ {n}, content)

Count(f, k) == IF k \in DOMAIN f THEN f[k] ELSE 0

Bump(f, k) == [x \in DOMAIN f \cup {k} |-> IF x = k THEN Count(f, k) + 1 ELSE f[x]]

\* The cache key of _loaded_env_files.
Mut_cache_key(cls) == cls.model_config.env_file

cache_key(cls) == absolute(cls.model_config.env_file)

\* The process-wide state the pipeline reads and writes, as one record.
Proc ==
    [struct_class_cache |-> struct_class_cache, encoder_cache |-> encoder_cache,
     decoder_cache |-> decoder_cache, loaded_env_files |-> loaded_env_files,
     environ |-> environ, next_id |-> next_id, load_count |-> load_count,
     requests |-> requests, compile_count |-> compile_count]

Log(f, k, x) ==
    [y \in DOMAIN f \cup {k} |->
        IF y = k THEN (IF k \in DOMAIN f THEN Append(f[k], x) ELSE <<x>>) ELSE f[y]]

\* A loader that records the path as loaded whether or not the file exists.
Mut__load_env_files(P, cls, files) ==
    IF cls.model_config.env_file = <<>> THEN P
    ELSE [P EXCEPT
            !.requests = Log(@, absolute(cls.model_config.env_file), cls.name),
            !.environ = IF /\ cache_key(cls) \notin P.loaded_env_files
                           /\ exists(files, cls.model_config.env_file)
                        THEN load_dotenv(@, files[absolute(cls.model_config.env_file)])
                        ELSE @,
            !.load_count = IF /\ cache_key(cls) \notin P.loaded_env_files
                              /\ exists(files, cls.model_config.env_file)
                           THEN Bump(@, absolute(cls.model_config.env_file)) ELSE @,
            !.loaded_env_files = @ \cup {cache_key(cls)}]

_load_env_files(P, cls, files) ==
    IF cls.model_config.env_file = <<>> THEN P
    ELSE LET asked == [P EXCEPT !.requests =
                            Log(@, absolute(cls.model_config.env_file), cls.name)]
         IN  IF /\ cache_key(cls) \notin P.loaded_env_files
                /\ exists(files, cls.model_config.env_file)
             THEN [asked EXCEPT
                     !.environ =
                        load_dotenv(@, files[absolute(cls.model_config.env_file)]),
                     !.load_count = Bump(@, absolute(cls.model_config.env_file)),
                     !.loaded_env_files = @ \cup {cache_key(cls)}]
             ELSE asked

\* ------------------------------------------------------- environment collector

RECURSIVE collect_from(_, _, _, _, _)
collect_from(cls, struct_cls, env, j, env_dict) ==
    IF j > Len(struct_cls.fields) THEN Return(env_dict)
    ELSE LET field_name == struct_cls.fields[j].name
             env_name == _get_env_name(cls, field_name)
         IN  IF env_name \notin DOMAIN env
             THEN collect_from(cls, struct_cls, env, j + 1, env_dict)
             ELSE LET converted ==
                        _preprocess_env_value(env[env_name], struct_cls.fields[j].type)
                  IN  IF ~converted.ok
                      THEN converted
                      ELSE collect_from(cls, struct_cls, env, j + 1,
                                        Append(env_dict, <<field_name, converted.v>>))

_collect_env_values(cls, struct_cls, env) ==
    collect_from(cls, struct_cls, env, 1, <<>>)

\* -------------------------------------------------------- pipeline orchestrator

\* A schema cache that is never consulted: every call compiles and stores.
Mut__get_or_create_struct_class(P, cls) ==
    [P EXCEPT
        !.struct_class_cache =
            [c \in DOMAIN @ \cup {cls.name} |->
                IF c = cls.name THEN _create_struct_class(cls, P.next_id) ELSE @[c]],
        !.compile_count = Bump(@, cls.name),
        !.next_id = @ + 1]

_get_or_create_struct_class(P, cls) ==
    IF cls.name \notin DOMAIN P.struct_class_cache
    THEN [P EXCEPT
            !.struct_class_cache = @ @@ (cls.name :> _create_struct_class(cls, P.next_id)),
            !.compile_count = Bump(@, cls.name),
            !.next_id = @ + 1]
    ELSE P

\* An encoder cache that is never consulted: every call stores a new Encoder.
Mut_get_encoder(P, struct_cls) ==
    [P EXCEPT !.encoder_cache =
                    [k \in DOMAIN @ \cup {struct_cls.id} |->
                        IF k = struct_cls.id THEN [id |-> P.next_id] ELSE @[k]],
              !.next_id = @ + 1]

get_encoder(P, struct_cls) ==
    IF struct_cls.id \notin DOMAIN P.encoder_cache
    THEN [P EXCEPT !.encoder_cache = @ @@ (struct_cls.id :> [id |-> P.next_id]),
                   !.next_id = @ + 1]
    ELSE P

\* A decoder cache that is never consulted: every call stores a new Decoder.
Mut_get_decoder(P, struct_cls) ==
    [P EXCEPT !.decoder_cache =
                    [k \in DOMAIN @ \cup {struct_cls.id} |->
                        IF k = struct_cls.id
                        THEN [id |-> P.next_id, type |-> struct_cls.id] ELSE @[k]],
              !.next_id = @ + 1]

get_decoder(P, struct_cls) ==
    IF struct_cls.id \notin DOMAIN P.decoder_cache
    THEN [P EXCEPT !.decoder_cache =
                        @ @@ (struct_cls.id :> [id |-> P.next_id, type |-> struct_cls.id]),
                   !.next_id = @ + 1]
    ELSE P

\* except msgspec.ValidationError as e: raise ValueError(f"Validation error: {e}")
Mut_reraise(codec) ==
    IF codec.ok THEN codec
    ELSE Raise("ValueError", "Validation error", [field |-> <<>>, reason |-> <<>>])

reraise(codec) ==
    IF codec.ok THEN codec
    ELSE Raise("ValueError", "Validation error", codec.error.cause)

_decode_from_dict(P, struct_cls, values) ==
    LET P2 == get_decoder(get_encoder(P, struct_cls), struct_cls)
        codec == decode(struct_cls, encode(values))
    IN  [P |-> P2, out |-> reraise(codec), codec |-> codec, decoded |-> TRUE,
         values |-> values, struct |-> struct_cls.id]

\* A construction that collects the variables before it loads the env file.
Mut__create_from_env(P, cls, struct_cls, files) ==
    LET P2 == _load_env_files(P, cls, files)
        env_dict == _collect_env_values(cls, struct_cls, P.environ)
    IN  IF env_dict.ok
        THEN _decode_from_dict(P2, struct_cls, env_dict.v)
        ELSE [P |-> P2, out |-> env_dict, codec |-> Return(None), decoded |-> FALSE,
              values |-> <<>>, struct |-> struct_cls.id]

_create_from_env(P, cls, struct_cls, files) ==
    LET P2 == _load_env_files(P, cls, files)
        env_dict == _collect_env_values(cls, struct_cls, P2.environ)
    IN  IF env_dict.ok
        THEN _decode_from_dict(P2, struct_cls, env_dict.v)
        ELSE [P |-> P2, out |-> env_dict, codec |-> Return(None), decoded |-> FALSE,
              values |-> <<>>, struct |-> struct_cls.id]

_create_from_dict(P, struct_cls, values) ==
    _decode_from_dict(P, struct_cls, values)

\* A constructor that merges the environment under the keyword arguments.
Mut_new(P, cls, kwargs, files) ==
    LET P1 == _get_or_create_struct_class(P, cls)
        struct_cls == P1.struct_class_cache[cls.name]
        env_dict == _collect_env_values(cls, struct_cls, P1.environ)
        given == {kwargs[i][1] : i \in 1..Len(kwargs)}
    IN  IF kwargs = <<>>
        THEN _create_from_env(P1, cls, struct_cls, files)
        ELSE IF env_dict.ok
        THEN _create_from_dict(P1, struct_cls,
                kwargs \o SelectSeq(env_dict.v, LAMBDA e : e[1] \notin given))
        ELSE _create_from_dict(P1, struct_cls, kwargs)

\* BaseSettings.__new__(cls, **kwargs)
new(P, cls, kwargs, files) ==
    LET P1 == _get_or_create_struct_class(P, cls)
        struct_cls == P1.struct_class_cache[cls.name]
    IN  IF kwargs = <<>>
        THEN _create_from_env(P1, cls, struct_cls, files)
        ELSE _create_from_dict(P1, struct_cls, kwargs)

\* ------------------------------------------------------------ inputs (bounded)

EnvNames == {E_APP_NAME, E_DEBUG, E_MAX_CONNECTIONS}

S_list == <<"[","1","]">>

\* os.environ[name] = value, as the application or its launcher may set it.
EnvChoices ==
    { <<E_APP_NAME, S_svc>>, <<E_APP_NAME, S_list>>, <<E_DEBUG, S_True>>,
      <<E_MAX_CONNECTIONS, S_200>>, <<E_MAX_CONNECTIONS, S_abc>> }

\* The env file the process may find when it starts, and what may be written to it.
EnvFileAtStart ==
    (E_APP_NAME :> S_svc) @@ (E_DEBUG :> S_true) @@ (E_MAX_CONNECTIONS :> S_200)

EnvFileContents == {EnvFileAtStart, (E_MAX_CONNECTIONS :> S_abc)}

\* **kwargs of a call: a dict, so its names are distinct; its order is the call's.
\* <<>> is a call without keyword arguments.
Kwargs ==
    { <<>>,
      << <<N_app_name, PyStr(S_x)>> >>,
      << <<N_max_connections, PyInt(5)>> >>,
      << <<N_max_connections, PyStr(S_x)>> >>,
      << <<N_app_name, PyStr(S_x)>>, <<N_max_connections, PyInt(5)>> >>,
      << <<N_max_connections, PyStr(S_x)>>, <<N_debug, PyInt(5)>> >>,
      << <<N_app_name, PyStr(S_x)>>, <<N_extra, PyBool(TRUE)>> >> }

\* instance.<name> = value, as the application may write it.
Assignments ==
    { <<N_app_name, PyStr(S_x)>>, <<N_max_connections, PyInt(5)>>,
      <<N_debug, PyStr(S_x)>>, <<N_extra, PyBool(TRUE)>> }

\* ------------------------------------------------------------------- actions

NoCall == [op |-> "none"]

\* The process state proper: the caches, the loaded files and the environment.
State(P) ==
    <<P.struct_class_cache, P.encoder_cache, P.decoder_cache, P.loaded_env_files,
      P.environ>>

\* One call cls(**kwargs), start to finish, by the only thread of the process.
\* The application keeps a reference to one of the instances it gets.
Construct(cls, kwargs) ==
    /\ calls < MaxCalls
    /\ LET Store(r) ==
               /\ struct_class_cache' = r.P.struct_class_cache
               /\ encoder_cache' = r.P.encoder_cache
               /\ decoder_cache' = r.P.decoder_cache
               /\ loaded_env_files' = r.P.loaded_env_files
               /\ environ' = r.P.environ
               /\ next_id' = r.P.next_id
               /\ load_count' = r.P.load_count
               /\ requests' = r.P.requests
               /\ compile_count' = r.P.compile_count
               /\ last' = [op |-> "new", cls |-> cls.name, kwargs |-> kwargs,
                           out |-> r.out, codec |-> r.codec, decoded |-> r.decoded,
                           values |-> r.values, struct |-> r.struct,
                           changed |-> State(r.P) # State(Proc)]
               /\ held' \in (IF r.out.ok /\ held = None THEN {held, r.out.v} ELSE {held})
       IN  Store(new(Proc, cls, kwargs, fs))
    /\ calls' = calls + 1
    /\ UNCHANGED <<fs, app_ops, pc, frame, decl, compiled, input, output>>

\* os.environ[name] = value
Setenv(name, value) ==
    /\ app_ops < MaxAppOps
    /\ environ' = [k \in DOMAIN environ \cup {name} |->
                      IF k = name THEN value ELSE environ[k]]
    /\ environ' # environ
    /\ app_ops' = app_ops + 1
    /\ UNCHANGED <<struct_class_cache, encoder_cache, decoder_cache, loaded_env_files,
                   fs, next_id, last, held, calls, load_count, requests, compile_count,
                   pc, frame, decl, compiled, input, output>>

\* del os.environ[name]
Unsetenv(name) ==
    /\ app_ops < MaxAppOps
    /\ name \in DOMAIN environ
    /\ environ' = [k \in DOMAIN environ \ {name} |-> environ[k]]
    /\ app_ops' = app_ops + 1
    /\ UNCHANGED <<struct_class_cache, encoder_cache, decoder_cache, loaded_env_files,
                   fs, next_id, last, held, calls, load_count, requests, compile_count,
                   pc, frame, decl, compiled, input, output>>

\* The env file is written (created or replaced) by something outside the pipeline.
\* The env file written, or removed, by a process that has done fewer than max
\* such things.
WriteEnvFileWithin(content, max) ==
    /\ app_ops < max
    /\ fs' = [k \in DOMAIN fs \cup {P_abs_dotenv} |->
                 IF k = P_abs_dotenv THEN content ELSE fs[k]]
    /\ fs' # fs
    /\ app_ops' = app_ops + 1
    /\ UNCHANGED <<struct_class_cache, encoder_cache, decoder_cache, loaded_env_files,
                   environ, next_id, last, held, calls, load_count, requests,
                   compile_count,
                   pc, frame, decl, compiled, input, output>>

DeleteEnvFileWithin(max) ==
    /\ app_ops < max
    /\ P_abs_dotenv \in DOMAIN fs
    /\ fs' = [k \in DOMAIN fs \ {P_abs_dotenv} |-> fs[k]]
    /\ app_ops' = app_ops + 1
    /\ UNCHANGED <<struct_class_cache, encoder_cache, decoder_cache, loaded_env_files,
                   environ, next_id, last, held, calls, load_count, requests,
                   compile_count,
                   pc, frame, decl, compiled, input, output>>

WriteEnvFile(content) == WriteEnvFileWithin(content, MaxAppOps)

DeleteEnvFile == DeleteEnvFileWithin(MaxAppOps)

struct_of(instance) ==
    CHOOSE sc \in {struct_class_cache[c] : c \in DOMAIN struct_class_cache} :
        sc.id = instance.struct

\* held.<name> = value: Struct.__setattr__ stores the value, unvalidated, in a
\* field of an instance whose Struct class is not frozen, and raises otherwise.
SetAttr(name, value) ==
    /\ app_ops < MaxAppOps
    /\ held # None
    /\ name \in DOMAIN held.values
    /\ ~struct_of(held).frozen
    /\ held' = [held EXCEPT !.values[name] = value]
    /\ held' # held
    /\ app_ops' = app_ops + 1
    /\ UNCHANGED <<struct_class_cache, encoder_cache, decoder_cache, loaded_env_files,
                   environ, fs, next_id, last, calls, load_count, requests,
                   compile_count,
                   pc, frame, decl, compiled, input, output>>

Init ==
    /\ struct_class_cache = <<>>
    /\ encoder_cache = <<>>
    /\ decoder_cache = <<>>
    /\ loaded_env_files = {}
    /\ environ = <<>>
    /\ fs \in {<<>>, P_abs_dotenv :> EnvFileAtStart}
    /\ next_id = 1
    /\ last = NoCall
    /\ held = None
    /\ calls = 0
    /\ app_ops = 0
    /\ load_count = <<>>
    /\ requests = <<>>
    /\ compile_count = <<>>
    /\ pc = <<>>
    /\ frame = <<>>
    /\ decl = None
    /\ compiled = None
    /\ input = None
    /\ output = None

Next ==
    \/ \E cls \in Classes, kwargs \in Kwargs : Construct(cls, kwargs)
    \/ \E c \in EnvChoices : Setenv(c[1], c[2])
    \/ \E name \in EnvNames : Unsetenv(name)
    \/ \E content \in EnvFileContents : WriteEnvFile(content)
    \/ DeleteEnvFile
    \/ \E p \in Assignments : SetAttr(p[1], p[2])

Spec == Init /\ [][Next]_vars

\* ---------------------------------------------------------------- threads
\* NThreads threads, each making one call AppSettings(**kwargs). A step is what a thread
\* does between two points where another thread can run: one read or one write
\* of a shared dict, set or of os.environ. What a step computes on the thread's
\* own locals (compiling the Struct class, coercing a value, the bulk decode)
\* is part of the step. An object made by thread t (a Struct class, an Encoder, a
\* Decoder) has t as its identity: a thread makes at most one of each.

Threads == 1..NThreads

ThreadKwargs ==
    { <<>>, << <<N_app_name, PyStr(S_x)>>, <<N_max_connections, PyInt(5)>> >> }

NewFrame(cls, kwargs) ==
    [cls |-> cls, kwargs |-> kwargs, new_struct |-> None, struct_cls |-> None,
     todo |-> <<>>, j |-> 1, env_dict |-> <<>>, encoder |-> None, decoder |-> None,
     out |-> None]

\* The call is over: its locals are gone, its result or exception is left.
Returned(f, out) == [NewFrame(f.cls, f.kwargs) EXCEPT !.out = out]

SequentialVars == <<last, held, calls, app_ops, decl, compiled, input, output>>

\* __new__ is entered (line 70) and reaches
\* if cls not in cls._struct_class_cache (line 82)
Call(t, cls, kwargs) ==
    /\ pc[t] = "idle"
    /\ pc' = [pc EXCEPT ![t] =
                IF cls.name \notin DOMAIN struct_class_cache
                THEN "create" ELSE "goc_return"]
    /\ frame' = [frame EXCEPT ![t] = NewFrame(cls, kwargs)]
    /\ UNCHANGED <<struct_class_cache, encoder_cache, decoder_cache, loaded_env_files,
                   environ, fs, next_id, load_count, requests, compile_count,
                   SequentialVars>>

\* cls._create_struct_class() (line 83, right-hand side): the new class is known to
\* this thread alone.
CreateStructClass(t) ==
    /\ pc[t] = "create"
    /\ frame' = [frame EXCEPT ![t].new_struct =
                    _create_struct_class(frame[t].cls, t)]
    /\ pc' = [pc EXCEPT ![t] = "store"]
    /\ UNCHANGED <<struct_class_cache, encoder_cache, decoder_cache, loaded_env_files,
                   environ, fs, next_id, load_count, requests, compile_count,
                   SequentialVars>>

\* cls._struct_class_cache[cls] = ... (line 83, the store); the temporary is dropped.
StoreStructClass(t) ==
    /\ pc[t] = "store"
    /\ struct_class_cache' =
            [c \in DOMAIN struct_class_cache \cup {frame[t].cls.name} |->
                IF c = frame[t].cls.name THEN frame[t].new_struct
                ELSE struct_class_cache[c]]
    /\ frame' = [frame EXCEPT ![t].new_struct = None]
    /\ pc' = [pc EXCEPT ![t] = "goc_return"]
    /\ UNCHANGED <<encoder_cache, decoder_cache, loaded_env_files, environ, fs,
                   next_id, load_count, requests, compile_count, SequentialVars>>

\* return cls._struct_class_cache[cls] (line 84), then the branch of line 73.
ReturnStructClass(t) ==
    /\ pc[t] = "goc_return"
    /\ frame' = [frame EXCEPT ![t].struct_cls =
                    struct_class_cache[frame[t].cls.name]]
    /\ pc' = [pc EXCEPT ![t] =
                IF frame[t].kwargs = <<>> THEN "load_check" ELSE "enc_get"]
    /\ UNCHANGED <<struct_class_cache, encoder_cache, decoder_cache, loaded_env_files,
                   environ, fs, next_id, load_count, requests, compile_count,
                   SequentialVars>>

\* if cls.model_config.env_file: ... if cache_key not in cls._loaded_env_files
\* (lines 215-221)
CheckLoaded(t) ==
    /\ pc[t] = "load_check"
    /\ IF frame[t].cls.model_config.env_file = <<>>
       THEN pc' = [pc EXCEPT ![t] = "collect"]
       ELSE pc' = [pc EXCEPT ![t] =
                        IF cache_key(frame[t].cls) \notin loaded_env_files
                        THEN "load_exists" ELSE "collect"]
    /\ UNCHANGED <<struct_class_cache, encoder_cache, decoder_cache, loaded_env_files,
                   environ, fs, next_id, load_count, requests, compile_count, frame,
                   SequentialVars>>

\* if env_path.exists() (line 222), and load_dotenv reading the file (line 223)
ReadEnvFile(t) ==
    /\ pc[t] = "load_exists"
    /\ IF exists(fs, frame[t].cls.model_config.env_file)
       THEN LET path == absolute(frame[t].cls.model_config.env_file)
            IN  /\ frame' = [frame EXCEPT ![t].todo =
                        SortedNames(DOMAIN fs[path], fs[path])]
                /\ load_count' = Bump(load_count, path)
                /\ pc' = [pc EXCEPT ![t] =
                            IF DOMAIN fs[path] = {} THEN "load_add" ELSE "load_set"]
       ELSE /\ pc' = [pc EXCEPT ![t] = "collect"]
            /\ UNCHANGED <<frame, load_count>>
    /\ UNCHANGED <<struct_class_cache, encoder_cache, decoder_cache, loaded_env_files,
                   environ, fs, next_id, requests, compile_count, SequentialVars>>

\* load_dotenv setting one variable of the file, unless the environment holds it
\* already (line 223); after the last one load_dotenv returns.
SetFromEnvFile(t) ==
    /\ pc[t] = "load_set"
    /\ environ' = load_dotenv(environ,
                (Head(frame[t].todo)[1] :> Head(frame[t].todo)[2]))
    /\ frame' = [frame EXCEPT ![t].todo = Tail(@)]
    /\ pc' = [pc EXCEPT ![t] =
                IF Tail(frame[t].todo) = <<>> THEN "load_add" ELSE "load_set"]
    /\ UNCHANGED <<struct_class_cache, encoder_cache, decoder_cache, loaded_env_files,
                   fs, next_id, load_count, requests, compile_count, SequentialVars>>

\* cls._loaded_env_files.add(cache_key) (line 227)
AddLoaded(t) ==
    /\ pc[t] = "load_add"
    /\ loaded_env_files' = loaded_env_files \cup {cache_key(frame[t].cls)}
    /\ pc' = [pc EXCEPT ![t] = "collect"]
    /\ UNCHANGED <<struct_class_cache, encoder_cache, decoder_cache, environ, fs,
                   next_id, load_count, requests, compile_count, frame,
                   SequentialVars>>

\* One turn of the loop of _collect_env_values (lines 237-246): os.environ.get for
\* the next field, and its coercion.
CollectField(t) ==
    /\ pc[t] = "collect"
    /\ LET f == frame[t]
           fields == f.struct_cls.fields
           env_name == _get_env_name(f.cls, fields[f.j].name)
           converted == _preprocess_env_value(environ[env_name], fields[f.j].type)
           after == IF f.j = Len(fields) THEN "enc_get" ELSE "collect"
       IN  IF env_name \notin DOMAIN environ
           THEN /\ frame' = [frame EXCEPT ![t].j = @ + 1]
                /\ pc' = [pc EXCEPT ![t] = after]
           ELSE IF converted.ok
           THEN /\ frame' = [frame EXCEPT
                        ![t].j = @ + 1,
                        ![t].env_dict = Append(@, <<fields[f.j].name, converted.v>>)]
                /\ pc' = [pc EXCEPT ![t] = after]
           ELSE /\ frame' = [frame EXCEPT ![t] = Returned(f, converted)]
                /\ pc' = [pc EXCEPT ![t] = "done"]
    /\ UNCHANGED <<struct_class_cache, encoder_cache, decoder_cache, loaded_env_files,
                   environ, fs, next_id, load_count, requests, compile_count,
                   SequentialVars>>

\* encoder = cls._encoder_cache.get(struct_cls) (line 186)
GetEncoder(t) ==
    /\ pc[t] = "enc_get"
    /\ IF frame[t].struct_cls.id \in DOMAIN encoder_cache
       THEN /\ frame' = [frame EXCEPT ![t].encoder =
                            encoder_cache[frame[t].struct_cls.id]]
            /\ pc' = [pc EXCEPT ![t] = "dec_get"]
       ELSE /\ pc' = [pc EXCEPT ![t] = "enc_new"]
            /\ UNCHANGED frame
    /\ UNCHANGED <<struct_class_cache, encoder_cache, decoder_cache, loaded_env_files,
                   environ, fs, next_id, load_count, requests, compile_count,
                   SequentialVars>>

\* encoder = msgspec.json.Encoder(); cls._encoder_cache[struct_cls] = encoder
\* (lines 188-189)
NewEncoder(t) ==
    /\ pc[t] = "enc_new"
    /\ frame' = [frame EXCEPT ![t].encoder = [id |-> t]]
    /\ encoder_cache' =
            [k \in DOMAIN encoder_cache \cup {frame[t].struct_cls.id} |->
                IF k = frame[t].struct_cls.id THEN [id |-> t]
                ELSE encoder_cache[k]]
    /\ pc' = [pc EXCEPT ![t] = "dec_get"]
    /\ UNCHANGED <<struct_class_cache, decoder_cache, loaded_env_files, environ, fs,
                   next_id, load_count, requests, compile_count, SequentialVars>>

\* decoder = cls._decoder_cache.get(struct_cls) (line 192)
GetDecoder(t) ==
    /\ pc[t] = "dec_get"
    /\ IF frame[t].struct_cls.id \in DOMAIN decoder_cache
       THEN /\ frame' = [frame EXCEPT ![t].decoder =
                            decoder_cache[frame[t].struct_cls.id]]
            /\ pc' = [pc EXCEPT ![t] = "decode"]
       ELSE /\ pc' = [pc EXCEPT ![t] = "dec_new"]
            /\ UNCHANGED frame
    /\ UNCHANGED <<struct_class_cache, encoder_cache, decoder_cache, loaded_env_files,
                   environ, fs, next_id, load_count, requests, compile_count,
                   SequentialVars>>

\* decoder = msgspec.json.Decoder(type=struct_cls);
\* cls._decoder_cache[struct_cls] = decoder (lines 194-195)
NewDecoder(t) ==
    /\ pc[t] = "dec_new"
    /\ LET d == [id |-> t, type |-> frame[t].struct_cls.id]
       IN  /\ frame' = [frame EXCEPT ![t].decoder = d]
           /\ decoder_cache' =
                [k \in DOMAIN decoder_cache \cup {frame[t].struct_cls.id} |->
                    IF k = frame[t].struct_cls.id THEN d ELSE decoder_cache[k]]
    /\ pc' = [pc EXCEPT ![t] = "decode"]
    /\ UNCHANGED <<struct_class_cache, encoder_cache, loaded_env_files, environ, fs,
                   next_id, load_count, requests, compile_count, SequentialVars>>

\* decoder.decode(encoder.encode(values)) and the except clauses (lines 198-206)
Decode(t) ==
    /\ pc[t] = "decode"
    /\ LET values == IF frame[t].kwargs = <<>>
                     THEN frame[t].env_dict ELSE frame[t].kwargs
       IN  frame' = [frame EXCEPT ![t] = Returned(frame[t],
                        reraise(decode(frame[t].struct_cls, encode(values))))]
    /\ pc' = [pc EXCEPT ![t] = "done"]
    /\ UNCHANGED <<struct_class_cache, encoder_cache, decoder_cache, loaded_env_files,
                   environ, fs, next_id, load_count, requests, compile_count,
                   SequentialVars>>

InitThreads ==
    /\ struct_class_cache = <<>>
    /\ encoder_cache = <<>>
    /\ decoder_cache = <<>>
    /\ loaded_env_files = {}
    /\ environ = <<>>
    /\ fs \in {<<>>, P_abs_dotenv :> EnvFileAtStart}
    /\ next_id = 1
    /\ last = NoCall
    /\ held = None
    /\ calls = 0
    /\ app_ops = 0
    /\ load_count = <<>>
    /\ requests = <<>>
    /\ compile_count = <<>>
    /\ pc = [t \in Threads |-> "idle"]
    /\ frame = [t \in Threads |-> NewFrame(None, <<>>)]
    /\ decl = None
    /\ compiled = None
    /\ input = None
    /\ output = None

NextThreads ==
    \E t \in Threads :
        \/ \E kwargs \in ThreadKwargs : Call(t, AppSettings, kwargs)
        \/ CreateStructClass(t)
        \/ StoreStructClass(t)
        \/ ReturnStructClass(t)
        \/ CheckLoaded(t)
        \/ ReadEnvFile(t)
        \/ SetFromEnvFile(t)
        \/ AddLoaded(t)
        \/ CollectField(t)
        \/ GetEncoder(t)
        \/ NewEncoder(t)
        \/ GetDecoder(t)
        \/ NewDecoder(t)
        \/ Decode(t)

SpecThreads == InitThreads /\ [][NextThreads]_vars


\* ------------------------------------------------------- compiling declarations
\* The schema compiler alone, on every declaration of at most MaxFields
\* annotations: any order, any subset of them given a default.

T_config == <<"SettingsConfigDict">>

FieldPool ==
    { Annotation(N_app_name, T_str), Annotation(N_debug, T_bool),
      Annotation(N_max_connections, T_int), Annotation(N_model_config, T_config) }

DefaultOf ==
    (N_app_name :> PyStr(S_svc)) @@ (N_debug :> PyBool(FALSE))
        @@ (N_max_connections :> PyInt(100))
        @@ (N_model_config :> [t |-> "SettingsConfigDict"])

\* cls.__annotations__ is a dict: a name is annotated once.
AnnotationLists ==
    {a \in UNION {[1..n -> FieldPool] : n \in 0..MaxFields} :
        \A i, j \in 1..Len(a) : i # j => a[i].name # a[j].name}

Declarations ==
    UNION { { [name |-> "Declared", annotations |-> a,
               attrs |-> [n \in D |-> DefaultOf[n]],
               model_config |-> SettingsConfigDict(<<>>, FALSE, <<>>)] :
              D \in SUBSET {a[i].name : i \in 1..Len(a)} } :
            a \in AnnotationLists }

InitCompile ==
    /\ struct_class_cache = <<>>
    /\ encoder_cache = <<>>
    /\ decoder_cache = <<>>
    /\ loaded_env_files = {}
    /\ environ = <<>>
    /\ fs = <<>>
    /\ next_id = 1
    /\ last = NoCall
    /\ held = None
    /\ calls = 0
    /\ app_ops = 0
    /\ load_count = <<>>
    /\ requests = <<>>
    /\ compile_count = <<>>
    /\ pc = <<>>
    /\ frame = <<>>
    /\ decl \in Declarations
    /\ compiled = None
    /\ input = None
    /\ output = None

CompileDeclaration ==
    /\ compiled = None
    /\ compiled' = _create_struct_class(decl, next_id)
    /\ next_id' = next_id + 1
    /\ UNCHANGED <<struct_class_cache, encoder_cache, decoder_cache, loaded_env_files,
                   environ, fs, last, held, calls, app_ops, load_count, requests,
                   compile_count, pc, frame, decl, input, output>>

NextCompile == CompileDeclaration

SpecCompile == InitCompile /\ [][NextCompile]_vars

DeclaredAt(n) == CHOOSE i \in 1..Len(decl.annotations) : decl.annotations[i].name = n

\* C1: the compiled field order lists every field without a default before every
\* field with a default, and each of the two groups keeps the declaration order,
\* however the declaration interleaves them; every declared field is listed once.
C1_RequiredBeforeDefaulted ==
    compiled # None =>
        LET F == compiled.fields
            declared == {decl.annotations[i].name : i \in 1..Len(decl.annotations)}
                            \ {N_model_config}
        IN  /\ {F[i].name : i \in 1..Len(F)} = declared
            /\ Len(F) = Cardinality(declared)
            /\ \A i \in 1..Len(F) :
                    F[i].has_default <=> F[i].name \in DOMAIN decl.attrs
            /\ \A i, j \in 1..Len(F) :
                    i < j => ~(F[i].has_default /\ ~F[j].has_default)
            /\ \A i, j \in 1..Len(F) :
                    (i < j /\ F[i].has_default = F[j].has_default)
                        => DeclaredAt(F[i].name) < DeclaredAt(F[j].name)

\* A declaration with a defaulted field, then a required one, then a defaulted
\* one has been compiled.
C1_Witness ==
    /\ compiled # None
    /\ Len(decl.annotations) = 3
    /\ N_model_config \notin {decl.annotations[i].name : i \in 1..3}
    /\ decl.annotations[1].name \in DOMAIN decl.attrs
    /\ decl.annotations[2].name \notin DOMAIN decl.attrs
    /\ decl.annotations[3].name \in DOMAIN decl.attrs
    /\ compiled.fields[1].name = decl.annotations[2].name

\* --------------------------------------------------------- naming on its own
\* _get_env_name alone, on classes that differ in name, env file, prefix and case
\* sensitivity, and on field names of mixed case.

N_dbUrl2 == <<"d","b","U","r","l","2">>
N_PORT == <<"P","O","R","T">>

X_APP_ == <<"A","P","P","_">>
X_my_ == <<"m","y","_">>
X_Svc == <<"S","v","c">>

NamingClasses ==
    { [name |-> n, annotations |-> <<>>, attrs |-> <<>>,
       model_config |-> SettingsConfigDict(f, cs, x)] :
        n \in {"AppSettings", "WorkerSettings"}, f \in {<<>>, P_dotenv},
        cs \in BOOLEAN, x \in {<<>>, X_APP_, X_my_, X_Svc} }

NamingFields == {N_app_name, N_debug, N_max_connections, N_dbUrl2, N_PORT}

NoProcess ==
    /\ struct_class_cache = <<>>
    /\ encoder_cache = <<>>
    /\ decoder_cache = <<>>
    /\ loaded_env_files = {}
    /\ environ = <<>>
    /\ fs = <<>>
    /\ next_id = 1
    /\ last = NoCall
    /\ held = None
    /\ calls = 0
    /\ app_ops = 0
    /\ load_count = <<>>
    /\ requests = <<>>
    /\ compile_count = <<>>
    /\ pc = <<>>
    /\ frame = <<>>
    /\ decl = None
    /\ compiled = None

ProcessVars ==
    <<struct_class_cache, encoder_cache, decoder_cache, loaded_env_files, environ, fs,
      next_id, last, held, calls, app_ops, load_count, requests, compile_count, pc,
      frame, decl, compiled>>

InitNaming ==
    /\ NoProcess
    /\ input \in {[cls |-> c, field_name |-> n] : c \in NamingClasses, n \in NamingFields}
    /\ output = None

GetEnvName ==
    /\ output = None
    /\ output' = _get_env_name(input.cls, input.field_name)
    /\ UNCHANGED <<ProcessVars, input>>

NextNaming == GetEnvName

SpecNaming == InitNaming /\ [][NextNaming]_vars

\* The uppercase of one character, by the two alphabets.
UpperOf(c) ==
    IF \E k \in 1..26 : LowerLetters[k] = c
    THEN UpperLetters[CHOOSE k \in 1..26 : LowerLetters[k] = c]
    ELSE c

\* C13: the variable name of a field is env_prefix, character for character,
\* followed by the field name, each of its characters uppercased unless
\* case_sensitive is true; nothing else of the class enters the result.
C13_EnvName ==
    output # None =>
        LET prefix == input.cls.model_config.env_prefix
            name == input.field_name
        IN  /\ Len(output) = Len(prefix) + Len(name)
            /\ \A i \in 1..Len(prefix) : output[i] = prefix[i]
            /\ \A i \in 1..Len(name) :
                    output[Len(prefix) + i] =
                        IF input.cls.model_config.case_sensitive
                        THEN name[i] ELSE UpperOf(name[i])

\* A mixed-case field name under a lower-case prefix, case-insensitive: the name is
\* uppercased and the prefix is kept.
C13_Witness ==
    /\ input # None /\ output # None
    /\ input.field_name = N_dbUrl2
    /\ input.cls.model_config.env_prefix = X_my_
    /\ ~input.cls.model_config.case_sensitive
    /\ output = <<"m","y","_","D","B","U","R","L","2">>

\* ------------------------------------------------------- coercing on its own
\* _preprocess_env_value alone, on raw strings of every case and spacing.

S_TRUE == <<"T","R","U","E">>
S_tRuE == <<"t","R","u","E">>
S_yes == <<"y","e","s">>
S_YeS == <<"Y","e","S">>
S_false == <<"f","a","l","s","e">>
S_on == <<"o","n">>
S_true_padded == <<" ","t","r","u","e">>
S_truee == <<"t","r","u","e","e">>

S_1_2_list == <<"[","1",",","2","]">>
S_open_list == <<"[","1",",">>
S_padded_list == <<" ","[","1","]">>
S_1_5 == <<"1",".","5">>
S_1e3 == <<"1","e","3">>
S_12_padded == <<" ","1","2","\n">>

RawAlphabet == {"t", "Y", "1", "0", " ", "[", "{", "}"}

RawStrings ==
    UNION {[1..n -> RawAlphabet] : n \in 0..MaxRawLen}
        \cup {S_true, S_True, S_TRUE, S_tRuE, S_yes, S_YeS, S_no, S_false, S_on,
              S_true_padded, S_truee, S_200, S_abc, S_list, S_1_2_list, S_open_list,
              S_padded_list, S_1_5, S_1e3, S_12_padded}

T_opt_bool == <<"bool", "None">>
T_opt_float == <<"float", "None">>
T_opt_str == <<"str", "None">>
T_int_or_str == <<"int", "str">>
T_int_or_str_or_None == <<"int", "str", "None">>
T_int_bar_None == <<"int", "None", "|">>
T_list == <<"list">>

CoerceTypes ==
    {T_bool, T_opt_bool, T_int, T_opt_int, T_float, T_opt_float, T_str, T_opt_str,
     T_int_or_str, T_int_or_str_or_None, T_int_bar_None, T_list}

InitCoerce ==
    /\ NoProcess
    /\ input \in {[env_value |-> v, field_type |-> ty] :
                    v \in RawStrings, ty \in CoerceTypes}
    /\ output = None

PreprocessEnvValue ==
    /\ output = None
    /\ output' = _preprocess_env_value(input.env_value, input.field_type)
    /\ UNCHANGED <<ProcessVars, input>>

NextCoerce == PreprocessEnvValue

SpecCoerce == InitCoerce /\ [][NextCoerce]_vars

TrueWords ==
    { <<"t","r","u","e">>, <<"1">>, <<"y","e","s">>, <<"y">>, <<"t">> }

\* Whether two strings are equal but for the case of their letters.
SameIgnoringCase(a, b) ==
    /\ Len(a) = Len(b)
    /\ \A i \in 1..Len(a) : UpperOf(a[i]) = UpperOf(b[i])

\* C14: for a boolean field (bool or Optional[bool]) the coercion never raises and
\* returns true exactly when the raw string equals, case aside, one of "true",
\* "1", "yes", "y", "t"; every other string, the empty one included, gives false.
C14_BoolCoercion ==
    (output # None /\ input.field_type \in {T_bool, T_opt_bool}) =>
        /\ output.ok
        /\ output.v = PyBool(\E w \in TrueWords :
                                SameIgnoringCase(input.env_value, w))

\* A mixed-case "tRuE" coerced to true, for an Optional[bool] field.
C14_Witness ==
    /\ input # None /\ output # None
    /\ input.field_type = T_opt_bool
    /\ input.env_value = S_tRuE
    /\ output = Return(PyBool(TRUE))

\* --------------------------------------------------------------- scalar types
\* The str subclasses of types.py. An instance is [t |-> <class>, v |-> <content>]:
\* the content is what str.__new__(cls, value) stores.

\* A kind check that raises the error of the content checks.
Mut_TypeError(value) == Raise("ValueError", "Expected str", [got |-> value.t])

TypeError(value) == Raise("TypeError", "Expected str", [got |-> value.t])

FormatError(msg) == Raise("ValueError", msg, <<>>)

isinstance_str(value) == value.t = "str"

\* ------------------------------------------------------------------ SecretStr

Mask == <<"*","*","*","*","*","*","*","*","*","*">>

SecretStr(value) ==
    IF ~isinstance_str(value) THEN TypeError(value)
    ELSE Return([t |-> "SecretStr", v |-> value.v])

SecretStr__repr__(self) ==
    <<"S","e","c","r","e","t","S","t","r","(","'">> \o Mask \o <<"'",")">>

SecretStr__str__(self) == Mask

get_secret_value(self) == self.v

\* What _SecretStr inherits from str and does not override.
\* str.__format__(self, format_spec): an empty spec is str(self), through the
\* class's __str__; the spec "s" asks for no padding and no truncation, and the
\* string object itself is what comes back.
SecretStr__format__(self, format_spec) ==
    IF format_spec = <<>> THEN PyStr(SecretStr__str__(self)) ELSE self

\* "pw={:<format_spec>}".format(self), f"pw={self:<format_spec>}": the characters
\* of what __format__ returned are copied after the literal text.
X_pw == <<"p","w","=">>

template_format(self, format_spec) ==
    X_pw \o SecretStr__format__(self, format_spec).v

\* str.__add__(self, other): a plain str of the two contents.
SecretStr__add__(self, other) == self.v \o other

\* str.__getitem__(self, slice(None)): a plain str of the content.
SecretStr__getitem__(self) == self.v

\* str([self]): a list shows the repr of its elements.
list__str__(self) == <<"[">> \o SecretStr__repr__(self) \o <<"]">>

SecretOps ==
    {"str", "repr", "format", "format_s", "list", "get_secret_value", "add", "slice"}

Apply(op, self) ==
    CASE op = "str" -> SecretStr__str__(self)
      [] op = "repr" -> SecretStr__repr__(self)
      [] op = "format" -> template_format(self, <<>>)
      [] op = "format_s" -> template_format(self, <<"s">>)
      [] op = "list" -> list__str__(self)
      [] op = "get_secret_value" -> get_secret_value(self)
      [] op = "add" -> SecretStr__add__(self, <<>>)
      [] OTHER -> SecretStr__getitem__(self)

NonStrings == {PyInt(5), PyBool(TRUE), None, PyList(<<>>)}

SecretInputs == {PyStr(x) : x \in RawStrings} \cup NonStrings

InitSecret ==
    /\ NoProcess
    /\ input \in {[value |-> v, op |-> o] : v \in SecretInputs, o \in SecretOps}
    /\ output = None

\* s = SecretStr(value), then one operation on s.
UseSecret ==
    /\ output = None
    /\ LET made == SecretStr(input.value)
       IN  output' = IF made.ok THEN Return(Apply(input.op, made.v)) ELSE made
    /\ UNCHANGED <<ProcessVars, input>>

NextSecret == UseSecret

SpecSecret == InitSecret /\ [][NextSecret]_vars

\* C16: whatever string a secret holds, every operation on it but get_secret_value
\* gives a result fixed by the operation alone (the mask, or the mask in its repr
\* wrapping), so that the content is recovered by get_secret_value only.
C16_OnlyRevealRecovers ==
    (output # None /\ output.ok /\ input.op # "get_secret_value") =>
        output.v \in {Mask, X_pw \o Mask, SecretStr__repr__(None), list__str__(None)}

\* ---------------------------------------------------------- PaymentCardNumber

_CARD_MIN_LENGTH == 13
_CARD_MAX_LENGTH == 19
_LUHN_DOUBLE_THRESHOLD == 9

\* str.replace(old, ""): every occurrence of the one-character old is removed.
replace(s, old) == SelectSeq(s, LAMBDA c : c # old)

\* str.isdigit(): not empty, and digits only.
isdigit(s) == s # <<>> /\ \A i \in 1..Len(s) : IsDigit(s[i])

\* card_number[::-1]
reversed(s) == [i \in 1..Len(s) |-> s[Len(s) + 1 - i]]

\* A doubling that does not bring the double back under ten.
Mut_luhn_double(n) == 2 * n

\* n *= 2; if n > _LUHN_DOUBLE_THRESHOLD: n -= _LUHN_DOUBLE_THRESHOLD
luhn_double(n) ==
    IF 2 * n > _LUHN_DOUBLE_THRESHOLD THEN 2 * n - _LUHN_DOUBLE_THRESHOLD ELSE 2 * n

\* The loop of _luhn_check from index i (0-based) of reverse_digits on.
RECURSIVE luhn_total(_, _, _)
luhn_total(reverse_digits, i, total) ==
    IF i >= Len(reverse_digits) THEN total
    ELSE LET n == DigitValue(reverse_digits[i + 1])
         IN  luhn_total(reverse_digits, i + 1,
                        total + (IF i % 2 = 1 THEN luhn_double(n) ELSE n))

\* A check that doubles the rightmost digit and every second one from there.
Mut__luhn_check(card_number) ==
    luhn_total(<<"0">> \o reversed(card_number), 0, 0) % 10 = 0

_luhn_check(card_number) ==
    luhn_total(reversed(card_number), 0, 0) % 10 = 0

PaymentCardNumber(value) ==
    IF ~isinstance_str(value) THEN TypeError(value)
    ELSE LET digits == replace(replace(value.v, " "), "-")
         IN  IF ~isdigit(digits)
             THEN FormatError("Card number must contain only digits")
             ELSE IF ~(_CARD_MIN_LENGTH <= Len(digits) /\ Len(digits) <= _CARD_MAX_LENGTH)
             THEN FormatError("Card number must be 13-19 digits")
             ELSE IF ~_luhn_check(digits)
             THEN FormatError("Invalid card number (failed Luhn check)")
             ELSE Return([t |-> "PaymentCardNumber", v |-> digits])

\* Card numbers less their last digit: 8 to 19 digits, so that the full numbers
\* have 9 to 20.
CardPrefixes ==
    { <<"4","5","3","2","0","1","5","1","1","2","8","3","0","3","6">>,
      <<"3","7","8","2","8","2","2","4","6","3","1","0","0","0">>,
      <<"6","0","1","1","1","1","1","1","1","1","1","1","1","1","1">>,
      <<"4","5","3","2","0","1","5","1","1","2","8">>,
      <<"0","0","0","0","0","0","0","0","0","0","0","0">>,
      <<"4","0","0","0","0","0","0","0","0","0","0","0","0","0","0","0","0","0">>,
      <<"1","2","3","4","5","6","7","8","1","2","3","4","5","6","7","8","9","0","1">>,
      <<"7","9","9","2","7","3","9","8">>,
      <<"5","5","5","5","5","5","5","5","5","5","5","5","4","4","4">>,
      <<"4","1","1","1","1","1","1","1","1","1","1","1","1","1","1">> }

\* The ways a number is written: as it is, in groups of four separated by
\* spaces or dashes, padded, or with a character that is no digit.
Grouped(s, sep) ==
    LET at(i) == IF i > 1 /\ (i - 1) % 4 = 0 THEN <<sep, s[i]>> ELSE <<s[i]>>
        RECURSIVE from(_)
        from(i) == IF i > Len(s) THEN <<>> ELSE at(i) \o from(i + 1)
    IN  from(1)

Writings(s) ==
    { s, Grouped(s, " "), Grouped(s, "-"), <<" ">> \o s \o <<"-">>,
      s \o <<"a">>, Grouped(s, ".") }

CardStrings ==
    UNION { Writings(p \o <<Digits[d]>>) : p \in CardPrefixes, d \in 1..10 }
        \cup { <<>>, <<" ">>, <<"-", "-">> }

InitCard ==
    /\ NoProcess
    /\ input \in {[value |-> v] : v \in {PyStr(x) : x \in CardStrings} \cup NonStrings}
    /\ output = None

NewPaymentCardNumber ==
    /\ output = None
    /\ output' = PaymentCardNumber(input.value)
    /\ UNCHANGED <<ProcessVars, input>>

NextCard == NewPaymentCardNumber

SpecCard == InitCard /\ [][NextCard]_vars

\* The digit k places from the right (k = 0 is the rightmost), doubled at the odd
\* places, less 9 when the double exceeds 9.
LuhnTerm(d, k) ==
    LET n == DigitOf[d[Len(d) - k]]
    IN  IF k % 2 = 0 THEN n ELSE IF 2 * n > 9 THEN 2 * n - 9 ELSE 2 * n

RECURSIVE LuhnSum(_, _)
LuhnSum(d, k) == IF k >= Len(d) THEN 0 ELSE LuhnTerm(d, k) + LuhnSum(d, k + 1)

\* C17: PaymentCardNumber(v) succeeds exactly when v less its spaces and dashes is
\* made of digits only, 13 to 19 of them, with a Luhn total divisible by 10; the
\* value stored is then that digits-only form.
C17_CardAccepted ==
    (output # None /\ input.value.t = "str") =>
        LET d == SelectSeq(input.value.v, LAMBDA c : c \notin {" ", "-"})
            valid == /\ d # <<>>
                     /\ \A i \in 1..Len(d) : d[i] \in DOMAIN DigitOf
                     /\ Len(d) >= 13 /\ Len(d) <= 19
                     /\ LuhnSum(d, 0) % 10 = 0
        IN  /\ output.ok <=> valid
            /\ output.ok => output.v = [t |-> "PaymentCardNumber", v |-> d]
            /\ ~output.ok => output.error.kind = "ValueError"

\* 4532 0151 1283 0366, written with spaces, accepted and stored without them.
C17_Witness ==
    /\ input # None /\ output # None
    /\ input.value = PyStr(Grouped(<<"4","5","3","2","0","1","5","1","1","2","8","3","0","3","6","6">>, " "))
    /\ output = Return([t |-> "PaymentCardNumber", v |-> <<"4","5","3","2","0","1","5","1","1","2","8","3","0","3","6","6">>])

\* ------------------------------------------------------- PostgresDsn, RedisDsn

\* str.startswith(prefix), and str.startswith(tuple of prefixes)
has_prefix(s, prefix) ==
    Len(s) >= Len(prefix) /\ SubSeq(s, 1, Len(prefix)) = prefix

startswith_any(s, prefixes) == \E prefix \in prefixes : has_prefix(s, prefix)

\* str.find(sub): the 0-based index of the first occurrence of sub, or -1.
find(s, sub) ==
    LET hits == {i \in 0..(Len(s) - Len(sub)) : SubSeq(s, i + 1, i + Len(sub)) = sub}
    IN  IF hits = {} THEN -1 ELSE Min(hits)

\* value[start:] for a start that is not negative
slice_from(s, start) == SubSeq(s, start + 1, Len(s))

X_postgresql == <<"p","o","s","t","g","r","e","s","q","l",":","/","/">>
X_postgres == <<"p","o","s","t","g","r","e","s",":","/","/">>
X_redis == <<"r","e","d","i","s",":","/","/">>
X_rediss == <<"r","e","d","i","s","s",":","/","/">>
X_delimiter == <<":","/","/">>

PostgresDsn(value) ==
    IF ~isinstance_str(value) THEN TypeError(value)
    ELSE LET stripped == strip(value.v)
             scheme_end == find(stripped, X_delimiter) + 3
             remainder == slice_from(stripped, scheme_end)
         IN  IF ~startswith_any(lower(stripped), {X_postgresql, X_postgres})
             THEN FormatError("PostgreSQL DSN must start with postgresql:// or postgres://")
             ELSE IF remainder = <<>> \/ ~(\E i \in 1..Len(remainder) : remainder[i] = "/")
             THEN FormatError("Invalid PostgreSQL DSN format")
             ELSE Return([t |-> "PostgresDsn", v |-> stripped])

RedisDsn(value) ==
    IF ~isinstance_str(value) THEN TypeError(value)
    ELSE LET stripped == strip(value.v)
         IN  IF ~startswith_any(lower(stripped), {X_redis, X_rediss})
             THEN FormatError("Redis DSN must start with redis:// or rediss://")
             ELSE Return([t |-> "RedisDsn", v |-> stripped])

DsnSchemes ==
    { <<"p","o","s","t","g","r","e","s","q","l">>,
      <<"p","o","s","t","g","r","e","s">>,
      <<"P","o","s","t","g","r","e","s">>,
      <<"P","O","S","T","G","R","E","S","Q","L">>,
      <<"r","e","d","i","s">>,
      <<"r","e","d","i","s","s">>,
      <<"R","E","D","I","S">>,
      <<"R","e","d","i","s","s">>,
      <<"p","o","s","t","g","r","e">>,
      <<"r","e","d","i">>,
      <<"h","t","t","p">>,
      <<>> }

DsnDelimiters == { <<":","/","/">>, <<":","/">>, <<":">> }

DsnRemainders ==
    { <<>>, <<"h">>, <<"h","/","d">>, <<"/">>, <<"u","@","h","/">>, <<"h",":","1">>,
      <<"h"," ","/","d">> }

DsnPaddings == { <<<<>>, <<>>>>, <<<<" ">>, <<>>>>, <<<<>>, <<"\n">>>>, <<<<"\t">>, <<" ">>>> }

DsnStrings ==
    { pad[1] \o scheme \o delimiter \o remainder \o pad[2] :
        scheme \in DsnSchemes, delimiter \in DsnDelimiters,
        remainder \in DsnRemainders, pad \in DsnPaddings }

InitDsn ==
    /\ NoProcess
    /\ input \in {[type |-> ty, value |-> v] :
                    ty \in {"PostgresDsn", "RedisDsn"},
                    v \in {PyStr(x) : x \in DsnStrings} \cup NonStrings}
    /\ output = None

NewPostgresDsn ==
    /\ output = None
    /\ input.type = "PostgresDsn"
    /\ output' = PostgresDsn(input.value)
    /\ UNCHANGED <<ProcessVars, input>>

NewRedisDsn ==
    /\ output = None
    /\ input.type = "RedisDsn"
    /\ output' = RedisDsn(input.value)
    /\ UNCHANGED <<ProcessVars, input>>

NextDsn == NewPostgresDsn \/ NewRedisDsn

SpecDsn == InitDsn /\ [][NextDsn]_vars

X_postgresql_name == <<"p","o","s","t","g","r","e","s","q","l">>
X_postgres_name == <<"p","o","s","t","g","r","e","s">>
X_Postgres_name == <<"P","o","s","t","g","r","e","s">>
X_redis_name == <<"r","e","d","i","s">>
X_rediss_name == <<"r","e","d","i","s","s">>

\* A string less the whitespace at its two ends.
Trimmed(v) ==
    LET solid == {i \in 1..Len(v) : v[i] \notin {" ", "\t", "\n"}}
    IN  IF solid = {} THEN <<>>
        ELSE SubSeq(v, CHOOSE i \in solid : \A j \in solid : i <= j,
                       CHOOSE i \in solid : \A j \in solid : i >= j)

\* Whether t begins with the scheme and "://", case aside, and what follows.
BeginsWith(t, scheme) ==
    /\ Len(t) >= Len(scheme) + 3
    /\ SameIgnoringCase(SubSeq(t, 1, Len(scheme)), scheme)
    /\ SubSeq(t, Len(scheme) + 1, Len(scheme) + 3) = <<":","/","/">>

After(t, scheme) == SubSeq(t, Len(scheme) + 4, Len(t))

\* C20: PostgresDsn accepts a string exactly when, trimmed, it begins (case aside)
\* with postgresql:// or postgres:// and has a "/" after that; RedisDsn exactly
\* when, trimmed, it begins with redis:// or rediss://; the value stored is the
\* trimmed string.
C20_DsnAccepted ==
    (output # None /\ input.value.t = "str") =>
        LET t == Trimmed(input.value.v)
            slash(rest) == \E i \in 1..Len(rest) : rest[i] = "/"
            valid ==
                IF input.type = "PostgresDsn"
                THEN \E scheme \in {X_postgresql_name, X_postgres_name} :
                        BeginsWith(t, scheme) /\ slash(After(t, scheme))
                ELSE \E scheme \in {X_redis_name, X_rediss_name} : BeginsWith(t, scheme)
        IN  /\ output.ok <=> valid
            /\ output.ok => output.v = [t |-> input.type, v |-> t]
            /\ ~output.ok => output.error.kind = "ValueError"

\* "Postgres://u@h/" between a tab and a space is accepted and stored trimmed.
C20_Witness ==
    /\ input # None /\ output # None
    /\ input.type = "PostgresDsn"
    /\ input.value = PyStr(<<"\t">> \o X_Postgres_name \o <<":","/","/","u","@","h","/"," ">>)
    /\ output = Return([t |-> "PostgresDsn",
                        v |-> X_Postgres_name \o <<":","/","/","u","@","h","/">>])

\* ------------------------------------------------------ EmailStr, HttpUrl, AnyUrl

_EMAIL_MIN_LENGTH == 3
_EMAIL_MAX_LENGTH == 320
_URL_MAX_LENGTH == 2083

Letters == {LowerLetters[i] : i \in 1..26} \cup {UpperLetters[i] : i \in 1..26}

Alphanumerics == Letters \cup {Digits[d] : d \in 1..10}

All(s, from, to, chars) == \A i \in from..to : s[i] \in chars

\* A pattern that asks for an "@" only.
Mut__EMAIL_PATTERN(s) == \E i \in 1..Len(s) : s[i] = "@"

\* re.match(_EMAIL_PATTERN, value):
\* ^[a-zA-Z0-9._%+-]+@[a-zA-Z0-9.-]+\.[a-zA-Z]{2,}$ on a stripped string.
\* at is where "@" stands, dot where the "." before the last letters stands.
_EMAIL_PATTERN(s) ==
    \E at \in 2..Len(s), dot \in 4..Len(s) :
        /\ All(s, 1, at - 1, Alphanumerics \cup {".", "_", "%", "+", "-"})
        /\ s[at] = "@"
        /\ dot >= at + 2
        /\ All(s, at + 1, dot - 1, Alphanumerics \cup {".", "-"})
        /\ s[dot] = "."
        /\ Len(s) >= dot + 2
        /\ All(s, dot + 1, Len(s), Letters)

EmailStr(value) ==
    IF ~isinstance_str(value) THEN TypeError(value)
    ELSE LET stripped == strip(value.v)
         IN  IF stripped = <<>> \/ Len(stripped) < _EMAIL_MIN_LENGTH
             THEN FormatError("Email must be at least 3 characters")
             ELSE IF Len(stripped) > _EMAIL_MAX_LENGTH
             THEN FormatError("Email must be at most 320 characters")
             ELSE IF ~_EMAIL_PATTERN(stripped)
             THEN FormatError("Invalid email format")
             ELSE Return([t |-> "EmailStr", v |-> stripped])

X_http == <<"h","t","t","p",":","/","/">>
X_https == <<"h","t","t","p","s",":","/","/">>

\* re.match(_HTTP_URL_PATTERN, value, re.IGNORECASE): ^https?://[^\s/$.?#].[^\s]*$
\* on a stripped string. "." is any character but a newline.
_HTTP_URL_PATTERN(s) ==
    \E scheme \in {X_http, X_https} :
        /\ has_prefix(lower(s), scheme)
        /\ Len(s) >= Len(scheme) + 2
        /\ s[Len(scheme) + 1] \notin Whitespace \cup {"/", "$", ".", "?", "#"}
        /\ s[Len(scheme) + 2] # "\n"
        /\ \A i \in (Len(scheme) + 3)..Len(s) : s[i] \notin Whitespace

HttpUrl(value) ==
    IF ~isinstance_str(value) THEN TypeError(value)
    ELSE LET stripped == strip(value.v)
             lower_value == lower(stripped)
         IN  IF stripped = <<>>
             THEN FormatError("URL cannot be empty")
             ELSE IF Len(stripped) > _URL_MAX_LENGTH
             THEN FormatError("URL must be at most 2083 characters")
             ELSE IF ~_HTTP_URL_PATTERN(stripped)
             THEN FormatError("Invalid HTTP URL format")
             ELSE IF ~(has_prefix(lower_value, X_http) \/ has_prefix(lower_value, X_https))
             THEN FormatError("URL must use http or https scheme")
             ELSE Return([t |-> "HttpUrl", v |-> stripped])

\* re.match(_ANY_URL_PATTERN, value, re.IGNORECASE): ^[a-zA-Z][a-zA-Z0-9+.-]*:.+$
\* on a stripped string. colon is where the ":" after the scheme stands.
_ANY_URL_PATTERN(s) ==
    \E colon \in 2..Len(s) :
        /\ s[1] \in Letters
        /\ All(s, 2, colon - 1, Alphanumerics \cup {"+", ".", "-"})
        /\ s[colon] = ":"
        /\ Len(s) >= colon + 1
        /\ \A i \in (colon + 1)..Len(s) : s[i] # "\n"

AnyUrl(value) ==
    IF ~isinstance_str(value) THEN TypeError(value)
    ELSE LET stripped == strip(value.v)
         IN  IF stripped = <<>>
             THEN FormatError("URL cannot be empty")
             ELSE IF ~_ANY_URL_PATTERN(stripped)
             THEN FormatError("Invalid URL format")
             ELSE Return([t |-> "AnyUrl", v |-> stripped])

\* ------------------------------------------------------ FilePath, DirectoryPath
\* disk is what stands at each path: "file" or "dir".

exists_on(disk, path) == path \in DOMAIN disk

\* An isfile that is satisfied by anything that exists.
Mut_isfile(disk, path) == exists_on(disk, path)

isfile(disk, path) == exists_on(disk, path) /\ disk[path] = "file"

isdir(disk, path) == exists_on(disk, path) /\ disk[path] = "dir"

FilePath(value, disk) ==
    IF ~isinstance_str(value) THEN TypeError(value)
    ELSE LET stripped == strip(value.v)
         IN  IF ~exists_on(disk, stripped)
             THEN Raise("ValueError", "Path does not exist", [path |-> stripped])
             ELSE IF ~isfile(disk, stripped)
             THEN Raise("ValueError", "Path is not a file", [path |-> stripped])
             ELSE Return([t |-> "FilePath", v |-> stripped])

DirectoryPath(value, disk) ==
    IF ~isinstance_str(value) THEN TypeError(value)
    ELSE LET stripped == strip(value.v)
         IN  IF ~exists_on(disk, stripped)
             THEN Raise("ValueError", "Path does not exist", [path |-> stripped])
             ELSE IF ~isdir(disk, stripped)
             THEN Raise("ValueError", "Path is not a directory", [path |-> stripped])
             ELSE Return([t |-> "DirectoryPath", v |-> stripped])

\* ------------------------------------------------------- every scalar type
\* Each of the nine constructors, on strings that some of them accept and on
\* values that are no strings.

ScalarTypes ==
    {"EmailStr", "HttpUrl", "AnyUrl", "SecretStr", "PostgresDsn", "RedisDsn",
     "PaymentCardNumber", "FilePath", "DirectoryPath"}

Disks == { <<>>, (P_abs_dotenv :> "file") @@ (Cwd :> "dir") }

ScalarStrings ==
    { <<>>, <<" ">>, S_abc, Cwd, P_abs_dotenv, <<" ">> \o Cwd,
      <<"a","@","b",".","c","o">>,
      <<"a","@","b",".","c">>,
      <<" ","a","@","b",".","c","o"," ">>,
      <<"a","@","b">>,
      <<"@","b",".","c","o">>,
      <<"a",".","b","+","c","@","d","-","e",".","f",".","o","r","g">>,
      <<"a","@","b",".","c","0">>,
      <<"h","t","t","p",":","/","/","a",".","b">>,
      <<"H","T","T","P","S",":","/","/","x",".","y","/","z","?","q">>,
      <<"h","t","t","p",":","/","/","a"," ","b">>,
      <<"h","t","t","p",":","/","/","/","a">>,
      <<"h","t","t","p",":","/","/","a">>,
      <<"f","t","p",":","/","/","h","/","f">>,
      <<"a",":","b">>,
      <<"1","a",":","b">>,
      <<"m","a","i","l","t","o",":","x">>,
      <<"a","+","b",":">>,
      <<"r","e","d","i","s",":","/","/","h">>,
      <<"p","o","s","t","g","r","e","s",":","/","/","h","/","d">>,
      <<"4","5","3","2","0","1","5","1","1","2","8","3","0","3","6","6">>,
      <<"4","5","3","2","0","1","5","1","1","2","8","3","0","3","6","7">>,
      <<"1","2">> }

InitScalar ==
    /\ NoProcess
    /\ input \in {[type |-> ty, value |-> v, disk |-> d] :
                    ty \in ScalarTypes,
                    v \in {PyStr(x) : x \in ScalarStrings} \cup NonStrings,
                    d \in Disks}
    /\ output = None

\* The constructor of the type, called on the value.
NewScalar ==
    /\ output = None
    /\ output' =
        CASE input.type = "EmailStr" -> EmailStr(input.value)
          [] input.type = "HttpUrl" -> HttpUrl(input.value)
          [] input.type = "AnyUrl" -> AnyUrl(input.value)
          [] input.type = "SecretStr" -> SecretStr(input.value)
          [] input.type = "PostgresDsn" -> PostgresDsn(input.value)
          [] input.type = "RedisDsn" -> RedisDsn(input.value)
          [] input.type = "PaymentCardNumber" -> PaymentCardNumber(input.value)
          [] input.type = "FilePath" -> FilePath(input.value, input.disk)
          [] OTHER -> DirectoryPath(input.value, input.disk)
    /\ UNCHANGED <<ProcessVars, input>>

NextScalar == NewScalar

SpecScalar == InitScalar /\ [][NextScalar]_vars

\* C19: each of the nine constructors answers a value that is no string with a
\* TypeError, whatever else is wrong, and never with a ValueError or a value; a
\* string it rejects is answered with a ValueError, never a TypeError.
C19_KindBeforeContent ==
    output # None =>
        /\ input.value.t # "str" => (~output.ok /\ output.error.kind = "TypeError")
        /\ (input.value.t = "str" /\ ~output.ok) => output.error.kind = "ValueError"

\* PaymentCardNumber(5) has raised a TypeError.
C19_Witness ==
    /\ input # None /\ output # None
    /\ input.type = "PaymentCardNumber" /\ input.value = PyInt(5)
    /\ ~output.ok /\ output.error.kind = "TypeError"

\* ------------------------------------------------- a field of a scalar type
\* The pipeline on a class whose only field is declared as RedisDsn.

N_redis_url == <<"r","e","d","i","s","_","u","r","l">>
E_REDIS_URL == <<"R","E","D","I","S","_","U","R","L">>
S_redis_h == <<"r","e","d","i","s",":","/","/","h">>
S_REDIS_h_padded == <<" ","R","E","D","I","S",":","/","/","h"," ">>
S_http_h == <<"h","t","t","p",":","/","/","h">>

T_RedisDsn == <<"RedisDsn">>

CacheSettings ==
    [name |-> "CacheSettings",
     annotations |-> << Annotation(N_redis_url, T_RedisDsn) >>,
     attrs |-> <<>>,
     model_config |-> SettingsConfigDict(<<>>, FALSE, <<>>)]

RedisValues == {S_redis_h, S_REDIS_h_padded, S_http_h, S_abc, S_list, <<>>}

ScalarKwargs ==
    { <<>>, << <<N_redis_url, PyStr(S_redis_h)>> >>, << <<N_redis_url, PyStr(S_http_h)>> >>,
      << <<N_redis_url, PyStr(S_REDIS_h_padded)>> >>, << <<N_redis_url, PyInt(5)>> >> }

InitScalarField ==
    /\ struct_class_cache = <<>>
    /\ encoder_cache = <<>>
    /\ decoder_cache = <<>>
    /\ loaded_env_files = {}
    /\ environ \in {<<>>} \cup {(E_REDIS_URL :> v) : v \in RedisValues}
    /\ fs = <<>>
    /\ next_id = 1
    /\ last = NoCall
    /\ held = None
    /\ calls = 0
    /\ app_ops = 0
    /\ load_count = <<>>
    /\ requests = <<>>
    /\ compile_count = <<>>
    /\ pc = <<>>
    /\ frame = <<>>
    /\ decl = None
    /\ compiled = None
    /\ input = None
    /\ output = None

NextScalarField == \E kwargs \in ScalarKwargs : Construct(CacheSettings, kwargs)

SpecScalarField == InitScalarField /\ [][NextScalarField]_vars

\* ------------------------------------------------------ the Luhn check alone
\* _luhn_check on a digit string and on the same string with one digit replaced.

ValidCards ==
    { <<"4","5","3","2","0","1","5","1","1","2","8","3","0","3","6","6">>,
      <<"3","7","8","2","8","2","2","4","6","3","1","0","0","0","5">>,
      <<"0","0","0","0","0","0","0","0","0","0","0","0","0">>,
      <<"4","0","0","0","0","0","0","0","0","0","0","0","0","0","0","0","0","0","6">> }

LuhnStrings ==
    UNION {[1..n -> {Digits[d] : d \in 1..10}] : n \in 1..MaxLuhnLen} \cup ValidCards

InitLuhn ==
    /\ NoProcess
    /\ \E c \in LuhnStrings, d \in 1..10 :
          \E i \in 1..Len(c) :
              /\ c[i] # Digits[d]
              /\ input = [card_number |-> c, position |-> i, digit |-> Digits[d]]
    /\ output = None

LuhnCheckBoth ==
    /\ output = None
    /\ output' = [original |-> _luhn_check(input.card_number),
                  replaced |-> _luhn_check([input.card_number EXCEPT
                                                ![input.position] = input.digit])]
    /\ UNCHANGED <<ProcessVars, input>>

NextLuhn == LuhnCheckBoth

SpecLuhn == InitLuhn /\ [][NextLuhn]_vars

\* C18: when the Luhn check accepts a digit string, it rejects the string got by
\* replacing any one of its digits by a different digit.
C18_SingleDigitDetected ==
    (output # None /\ output.original) => ~output.replaced

\* 4532015112830366 is accepted and, with its last digit changed to 7, rejected.
C18_Witness ==
    /\ input # None /\ output # None
    /\ input.card_number = <<"4","5","3","2","0","1","5","1","1","2","8","3","0","3","6","6">>
    /\ input.position = 16 /\ input.digit = "7"
    /\ output = [original |-> TRUE, replaced |-> FALSE]

\* ------------------------------------------------ FilePath, DirectoryPath alone
\* The two path constructors on a disk where a path is missing or holds a regular
\* file, a directory or something else (a FIFO, a socket, a device).

P_tmp == <<"/","t">>

PathKinds == {"file", "dir", "other"}

PathDisks ==
    UNION {[paths -> PathKinds] : paths \in SUBSET {Cwd, P_tmp}}

PathStrings ==
    { <<>>, <<" ">>, Cwd, P_tmp, <<" ">> \o Cwd, P_tmp \o <<"\n">>,
      <<" ","\t">> \o P_tmp \o <<" ">>, P_abs_dotenv }

InitPath ==
    /\ NoProcess
    /\ input \in {[type |-> ty, value |-> v, disk |-> d] :
                    ty \in {"FilePath", "DirectoryPath"},
                    v \in {PyStr(x) : x \in PathStrings},
                    d \in PathDisks}
    /\ output = None

NewPath ==
    /\ output = None
    /\ output' = IF input.type = "FilePath" THEN FilePath(input.value, input.disk)
                 ELSE DirectoryPath(input.value, input.disk)
    /\ UNCHANGED <<ProcessVars, input>>

NextPath == NewPath

SpecPath == InitPath /\ [][NextPath]_vars

\* The kind a path type expects, and the message that names it.
ExpectedKind == IF input.type = "FilePath" THEN "file" ELSE "dir"

KindMessage ==
    IF input.type = "FilePath" THEN "Path is not a file" ELSE "Path is not a directory"

\* C21 (as stated): every failing construction of a path type raises an error that
\* names the path and the expected kind.
C21_ErrorNamesPathAndKind ==
    (output # None /\ ~output.ok) =>
        /\ output.error.cause = [path |-> Trimmed(input.value.v)]
        /\ output.error.msg = KindMessage

\* C21 (amended): FilePath / DirectoryPath returns the trimmed path exactly when
\* the trimmed path exists and is a regular file / a directory; a missing path
\* raises "Path does not exist" naming the path only, whatever kind was expected,
\* and a path of any other kind raises the error naming the path and the expected
\* kind.
C21_PathAccepted ==
    output # None =>
        LET path == Trimmed(input.value.v)
        IN  IF path \notin DOMAIN input.disk
            THEN output = Raise("ValueError", "Path does not exist", [path |-> path])
            ELSE IF input.disk[path] = ExpectedKind
            THEN output = Return([t |-> input.type, v |-> path])
            ELSE output = Raise("ValueError", KindMessage, [path |-> path])

\* FilePath(" /app") where /app is a directory has raised "Path is not a file: /app".
C21_Witness ==
    /\ input # None /\ output # None
    /\ input.type = "FilePath" /\ input.value = PyStr(<<" ">> \o Cwd)
    /\ Cwd \in DOMAIN input.disk /\ input.disk[Cwd] = "dir"
    /\ output = Raise("ValueError", "Path is not a file", [path |-> Cwd])

\* ------------------------------------------------------------- EmailStr alone
\* _EmailStr.__new__ on strings built from a local part, a domain and padding, and
\* on strings at the two length limits.

Rep(c, n) == [i \in 1..n |-> c]

X_b_co == <<"@","b",".","c","o">>

EmailLocals == { <<>>, <<"a">>, <<"a",".","b">>, <<"a","+","1">>, <<"a"," ","b">>, <<"a","@","b">> }

EmailDomains ==
    { <<"b">>, <<"b",".","c">>, <<"b",".","c","o">>, <<".","c","o">>, <<"b",".",".","c","o">>,
      <<"b","-","c",".","d","0">>, <<"b",".","c",".","d","e">>, <<"b","_","c",".","d","e">>,
      <<"B",".","C","O">>, <<>> }

EmailPaddings == { <<>>, <<" ">>, <<"\n","\t">> }

EmailStrings ==
    {p \o l \o <<"@">> \o d \o p : p \in EmailPaddings, l \in EmailLocals, d \in EmailDomains}
      \cup { <<>>, <<" ">>, <<"a">>, <<"a","@">>, <<" ","a","@"," ">>, <<"a","b","c">>, S_abc \o S_abc }
      \cup { Rep("a", n - Len(X_b_co)) \o X_b_co : n \in (_EMAIL_MAX_LENGTH - 1)..(_EMAIL_MAX_LENGTH + 1) }
      \cup { Rep("a", n) : n \in _EMAIL_MAX_LENGTH..(_EMAIL_MAX_LENGTH + 1) }
      \cup { <<" ">> \o Rep("a", _EMAIL_MAX_LENGTH - Len(X_b_co)) \o X_b_co \o <<" ">> }

InitEmail ==
    /\ NoProcess
    /\ input \in {PyStr(x) : x \in EmailStrings}
    /\ output = None

NewEmailStr ==
    /\ output = None
    /\ output' = EmailStr(input)
    /\ UNCHANGED <<ProcessVars, input>>

NextEmail == NewEmailStr

SpecEmail == InitEmail /\ [][NextEmail]_vars

\* The local@domain.tld grammar: one "@"; before it a non-empty local part of
\* letters, digits and . _ % + -; after it a domain whose last "." is followed by
\* two or more letters and preceded by one or more letters, digits, "." and "-".
LocalAtDomainTld(t) ==
    LET ats == {i \in 1..Len(t) : t[i] = "@"}
        at == CHOOSE i \in ats : TRUE
        dots == {i \in (at + 1)..Len(t) : t[i] = "."}
        dot == CHOOSE i \in dots : \A j \in dots : j <= i
    IN  /\ Cardinality(ats) = 1
        /\ at > 1
        /\ \A i \in 1..(at - 1) : t[i] \in Alphanumerics \cup {".", "_", "%", "+", "-"}
        /\ dots # {}
        /\ dot > at + 1
        /\ \A i \in (at + 1)..(dot - 1) : t[i] \in Alphanumerics \cup {".", "-"}
        /\ Len(t) - dot >= 2
        /\ \A i \in (dot + 1)..Len(t) : t[i] \in Letters

\* C22: EmailStr returns the trimmed input exactly when its length is in [3, 320]
\* and it matches the local@domain.tld grammar; a trimmed input shorter than 3 is
\* answered with the "at least 3 characters" error and one longer than 320 with
\* the "at most 320 characters" error, whatever its form; any other is answered
\* with the format error.
C22_EmailAccepted ==
    output # None =>
        LET t == Trimmed(input.v)
        IN  IF Len(t) < 3
            THEN output = Raise("ValueError", "Email must be at least 3 characters", <<>>)
            ELSE IF Len(t) > 320
            THEN output = Raise("ValueError", "Email must be at most 320 characters", <<>>)
            ELSE IF LocalAtDomainTld(t)
            THEN output = Return([t |-> "EmailStr", v |-> t])
            ELSE output = Raise("ValueError", "Invalid email format", <<>>)

\* A padded address of exactly 320 characters has been accepted and stored trimmed.
C22_Witness ==
    /\ input # None /\ output # None
    /\ input.t = "str" /\ Len(input.v) = 322 /\ input.v[1] = " "
    /\ output.ok /\ Len(output.v.v) = 320

\* ------------------------------------------------------------ the round trip
\* held.model_dump_json(), and the text decoded against held's Struct class.

\* msgspec.json.encode(self): the fields of the instance in the order of the
\* Struct class.
model_dump_json(instance) ==
    LET fields == struct_of(instance).fields
    IN  encode([j \in 1..Len(fields) |->
                    <<fields[j].name, instance.values[fields[j].name]>>])

ModelDumpJson ==
    /\ held # None
    /\ output' = [instance |-> held,
                  decoded |-> decode(struct_of(held), model_dump_json(held))]
    /\ output' # output
    /\ UNCHANGED <<ProcessVars, input>>

NextDump == Next \/ ModelDumpJson

SpecDump == Init /\ [][NextDump]_vars

\* --------------------------------------------------- fields of numeric types
\* The pipeline on a class with an int field and a float field, read from the
\* environment.

N_retries == <<"r","e","t","r","i","e","s">>
N_ratio == <<"r","a","t","i","o">>
E_RETRIES == <<"R","E","T","R","I","E","S">>
E_RATIO == <<"R","A","T","I","O">>
S_3 == <<"3">>
S_7_padded == <<" ","7","\n">>
S_nan == <<"n","a","n">>

PoolSettings ==
    [name |-> "PoolSettings",
     annotations |-> << Annotation(N_ratio, T_float), Annotation(N_retries, T_int) >>,
     attrs |-> (N_ratio :> PyFloat([negative |-> FALSE, abs |-> [m |-> 5, e |-> -1]])),
     model_config |-> SettingsConfigDict(<<>>, FALSE, <<>>)]

RetriesValues == {S_3, S_7_padded, S_1_5, S_abc, S_list, <<>>}

RatioValues == {S_1_5, S_1e3, S_3, S_nan, S_abc, S_list, <<>>}

NumericEnvirons ==
    {(E_RETRIES :> r) : r \in RetriesValues}
      \cup {(E_RETRIES :> r) @@ (E_RATIO :> x) : r \in RetriesValues, x \in RatioValues}
      \cup {(E_RATIO :> x) : x \in RatioValues}

InitNumeric ==
    /\ struct_class_cache = <<>>
    /\ encoder_cache = <<>>
    /\ decoder_cache = <<>>
    /\ loaded_env_files = {}
    /\ environ \in NumericEnvirons
    /\ fs = <<>>
    /\ next_id = 1
    /\ last = NoCall
    /\ held = None
    /\ calls = 0
    /\ app_ops = 0
    /\ load_count = <<>>
    /\ requests = <<>>
    /\ compile_count = <<>>
    /\ pc = <<>>
    /\ frame = <<>>
    /\ decl = None
    /\ compiled = None
    /\ input = None
    /\ output = None

NextNumeric == Construct(PoolSettings, <<>>)

SpecNumeric == InitNumeric /\ [][NextNumeric]_vars

\* ----------------------------------------------------- fields of any type
\* The pipeline on a class with an int, a bool, a list and a str field, read from
\* an environment whose values may begin with "[" or "{".

N_count == <<"c","o","u","n","t">>
N_flag == <<"f","l","a","g">>
N_tags == <<"t","a","g","s">>
N_label == <<"l","a","b","e","l">>
E_COUNT == <<"C","O","U","N","T">>
E_FLAG == <<"F","L","A","G">>
E_TAGS == <<"T","A","G","S">>
E_LABEL == <<"L","A","B","E","L">>
S_dict == <<"{","}">>

TagSettings ==
    [name |-> "TagSettings",
     annotations |-> << Annotation(N_count, T_int), Annotation(N_flag, T_bool),
                        Annotation(N_tags, T_list), Annotation(N_label, T_opt_str) >>,
     attrs |-> (N_count :> PyInt(0)) @@ (N_flag :> PyBool(FALSE))
                 @@ (N_tags :> PyList(<<>>)) @@ (N_label :> None),
     model_config |-> SettingsConfigDict(<<>>, FALSE, <<>>)]

TagValues ==
    (E_COUNT :> {S_list, S_3}) @@ (E_FLAG :> {S_list, S_open_list})
      @@ (E_TAGS :> {S_list, S_1_2_list, S_open_list, S_dict, S_padded_list, S_abc})
      @@ (E_LABEL :> {S_list, S_open_list, S_dict, S_abc})

TagEnvirons ==
    UNION {{env \in [names -> UNION {TagValues[n] : n \in names}] :
                \A n \in names : env[n] \in TagValues[n]} :
           names \in SUBSET DOMAIN TagValues}

InitTags ==
    /\ struct_class_cache = <<>>
    /\ encoder_cache = <<>>
    /\ decoder_cache = <<>>
    /\ loaded_env_files = {}
    /\ environ \in TagEnvirons
    /\ fs = <<>>
    /\ next_id = 1
    /\ last = NoCall
    /\ held = None
    /\ calls = 0
    /\ app_ops = 0
    /\ load_count = <<>>
    /\ requests = <<>>
    /\ compile_count = <<>>
    /\ pc = <<>>
    /\ frame = <<>>
    /\ decl = None
    /\ compiled = None
    /\ input = None
    /\ output = None

NextTags == Construct(TagSettings, <<>>)

SpecTags == InitTags /\ [][NextTags]_vars

\* ----------------------------------------- PaymentCardNumber, check by check
\* _PaymentCardNumber.__new__ one check at a time: pc is the check that comes
\* next, frame holds the digits and the checks evaluated so far.

StepVars ==
    <<struct_class_cache, encoder_cache, decoder_cache, loaded_env_files, environ, fs,
      next_id, last, held, calls, app_ops, load_count, requests, compile_count,
      decl, compiled, input>>

InitCardSteps ==
    /\ struct_class_cache = <<>>
    /\ encoder_cache = <<>>
    /\ decoder_cache = <<>>
    /\ loaded_env_files = {}
    /\ environ = <<>>
    /\ fs = <<>>
    /\ next_id = 1
    /\ last = NoCall
    /\ held = None
    /\ calls = 0
    /\ app_ops = 0
    /\ load_count = <<>>
    /\ requests = <<>>
    /\ compile_count = <<>>
    /\ decl = None
    /\ compiled = None
    /\ input \in {[value |-> v] : v \in {PyStr(x) : x \in CardStrings} \cup NonStrings}
    /\ output = None
    /\ pc = "isinstance"
    /\ frame = [digits |-> None, evaluated |-> <<>>]

\* One check: what it leaves in the frame, and either the next check or the
\* outcome of the constructor.
CardStep(check, digits, next, out) ==
    /\ pc = check
    /\ frame' = [digits |-> digits, evaluated |-> Append(frame.evaluated, check)]
    /\ pc' = IF out = None THEN next ELSE "done"
    /\ output' = out
    /\ UNCHANGED StepVars

\* if not isinstance(value, str): raise TypeError; then the spaces and dashes
\* are removed.
CheckKind ==
    CardStep("isinstance",
             IF isinstance_str(input.value)
             THEN replace(replace(input.value.v, " "), "-") ELSE None,
             "isdigit",
             IF isinstance_str(input.value) THEN None ELSE TypeError(input.value))

CheckDigits ==
    CardStep("isdigit", frame.digits, "length",
             IF isdigit(frame.digits) THEN None
             ELSE FormatError("Card number must contain only digits"))

\* A constructor without its length check.
Mut_CheckLength == CardStep("length", frame.digits, "_luhn_check", None)

CheckLength ==
    CardStep("length", frame.digits, "_luhn_check",
             IF _CARD_MIN_LENGTH <= Len(frame.digits) /\ Len(frame.digits) <= _CARD_MAX_LENGTH
             THEN None
             ELSE FormatError("Card number must be 13-19 digits"))

CheckLuhn ==
    CardStep("_luhn_check", frame.digits, "done",
             IF _luhn_check(frame.digits)
             THEN Return([t |-> "PaymentCardNumber", v |-> frame.digits])
             ELSE FormatError("Invalid card number (failed Luhn check)"))

NextCardSteps == CheckKind \/ CheckDigits \/ CheckLength \/ CheckLuhn

SpecCardSteps == InitCardSteps /\ [][NextCardSteps]_vars

\* The argument less its spaces and dashes.
CardDigits == SelectSeq(input.value.v, LAMBDA c : c \notin {" ", "-"})

Evaluated(check) == \E i \in 1..Len(frame.evaluated) : frame.evaluated[i] = check

\* C27: the checks run in the order kind, digits, length, Luhn, each one only
\* when those before it have passed. One or more digits (spaces and dashes
\* aside) that are fewer than 13 or more than 19 get the length error, and the
\* Luhn check is not evaluated; a character that is no digit, space or dash gets
\* the digits error, whatever the length, and neither the length nor the Luhn
\* check is evaluated.
C27_ChecksInOrder ==
    /\ \E n \in 0..4 :
          frame.evaluated = SubSeq(<<"isinstance", "isdigit", "length", "_luhn_check">>, 1, n)
    /\ (pc = "done" /\ input.value.t = "str") =>
          /\ (/\ CardDigits # <<>>
              /\ \A i \in 1..Len(CardDigits) : CardDigits[i] \in DOMAIN DigitOf
              /\ Len(CardDigits) < 13 \/ Len(CardDigits) > 19) =>
                 /\ output = Raise("ValueError", "Card number must be 13-19 digits", <<>>)
                 /\ ~Evaluated("_luhn_check")
          /\ (\E i \in 1..Len(CardDigits) : CardDigits[i] \notin DOMAIN DigitOf) =>
                 /\ output = Raise("ValueError", "Card number must contain only digits", <<>>)
                 /\ ~Evaluated("length") /\ ~Evaluated("_luhn_check")
    /\ (pc = "done" /\ input.value.t # "str") =>
          /\ ~output.ok /\ output.error.kind = "TypeError"
          /\ frame.evaluated = <<"isinstance">>
    /\ pc = "done" => output = PaymentCardNumber(input.value)

\* 12 digits that would pass the Luhn check (453201511285) are rejected for their
\* length, the Luhn check not evaluated.
C27_Witness ==
    /\ pc = "done"
    /\ input.value = PyStr(<<"4","5","3","2","0","1","5","1","1","2","8","5">>)
    /\ _luhn_check(input.value.v)
    /\ frame.evaluated = <<"isinstance", "isdigit", "length">>
    /\ output = Raise("ValueError", "Card number must be 13-19 digits", <<>>)

\* ------------------------------------------------------ the env file over time
\* Env-sourced constructions of the two classes, which name the same file, while
\* the file is written, rewritten and deleted.

NextEnvFile ==
    \/ \E cls \in Classes : Construct(cls, <<>>)
    \/ \E content \in EnvFileContents : WriteEnvFileWithin(content, MaxFileOps)
    \/ DeleteEnvFileWithin(MaxFileOps)

SpecEnvFile == Init /\ [][NextEnvFile]_vars

\* ------------------------------------------------- the steps of a construction
\* Env-sourced constructions of a class that declares a defaulted int before a
\* required list and a required int, with variables in the environment and in
\* the env file.

N_limit == <<"l","i","m","i","t">>
E_LIMIT == <<"L","I","M","I","T">>

OrderSettings ==
    [name |-> "OrderSettings",
     annotations |-> << Annotation(N_limit, T_int), Annotation(N_tags, T_list),
                        Annotation(N_count, T_int) >>,
     attrs |-> (N_limit :> PyInt(10)),
     model_config |-> SettingsConfigDict(P_dotenv, FALSE, <<>>)]

OrderFiles ==
    { (E_TAGS :> S_list) @@ (E_COUNT :> S_3),
      (E_TAGS :> S_list) @@ (E_COUNT :> S_3) @@ (E_LIMIT :> S_200),
      (E_COUNT :> S_abc) @@ (E_LIMIT :> S_x),
      (E_TAGS :> S_open_list) @@ (E_LIMIT :> S_abc) }

OrderEnvirons ==
    { <<>>, (E_TAGS :> S_list), (E_TAGS :> S_open_list), (E_COUNT :> S_abc),
      (E_COUNT :> S_3), (E_LIMIT :> S_abc) @@ (E_COUNT :> S_3),
      (E_TAGS :> S_list) @@ (E_COUNT :> S_abc) @@ (E_LIMIT :> S_x),
      (E_TAGS :> S_open_list) @@ (E_COUNT :> S_abc) @@ (E_LIMIT :> S_x) }

InitOrder ==
    /\ struct_class_cache = <<>>
    /\ encoder_cache = <<>>
    /\ decoder_cache = <<>>
    /\ loaded_env_files = {}
    /\ environ \in OrderEnvirons
    /\ fs \in {<<>>} \cup {(P_abs_dotenv :> c) : c \in OrderFiles}
    /\ next_id = 1
    /\ last = NoCall
    /\ held = None
    /\ calls = 0
    /\ app_ops = 0
    /\ load_count = <<>>
    /\ requests = <<>>
    /\ compile_count = <<>>
    /\ pc = <<>>
    /\ frame = <<>>
    /\ decl = None
    /\ compiled = None
    /\ input = None
    /\ output = None

NextOrder == Construct(OrderSettings, <<>>)

SpecOrder == InitOrder /\ [][NextOrder]_vars

\* ------------------------------------------------------ the pipeline's claims

ClassOf(name) == CHOOSE c \in Classes : c.name = name

Names(pairs) == {pairs[i][1] : i \in 1..Len(pairs)}

ValueOf(pairs, n) == pairs[CHOOSE i \in 1..Len(pairs) : pairs[i][1] = n][2]

Fields(cls) ==
    {cls.annotations[i] : i \in 1..Len(cls.annotations)}

Elements(seq) == {seq[i] : i \in 1..Len(seq)}

Constructed == calls' = calls + 1

\* Whether g keeps every entry of f.
Extends(f, g) == \A k \in DOMAIN f : k \in DOMAIN g /\ g[k] = f[k]

\* C2: across constructions of any kind and outcome, a class is compiled once:
\* its schema-cache entry is never replaced or removed, and every call uses the
\* descriptor stored by the first one.
C2_CompiledOnce ==
    [][ /\ Extends(struct_class_cache, struct_class_cache')
        /\ \A c \in DOMAIN struct_class_cache' : Count(compile_count', c) = 1
        /\ Constructed =>
              /\ last'.cls \in DOMAIN struct_class_cache'
              /\ last'.struct = struct_class_cache'[last'.cls].id ]_vars

\* A failing override-sourced construction of AppSettings after an env-sourced one
\* and after a successful one whose instance is kept, all on the same descriptor.
C2_Witness ==
    /\ last.op = "new" /\ last.cls = "AppSettings"
    /\ last.kwargs # <<>> /\ ~last.out.ok
    /\ P_abs_dotenv \in DOMAIN requests
    /\ "AppSettings" \in Elements(requests[P_abs_dotenv])
    /\ held # None /\ held.struct = last.struct
    /\ calls = 3

\* What a descriptor is made of: field names, types, defaults and their order.
Structure(d) == [name |-> d.name, fields |-> d.fields, kw_only |-> d.kw_only]

\* A fully built descriptor: one field for every annotation of the class, and the
\* three helper methods.
Complete(cls, d) ==
    /\ {d.fields[i].name : i \in 1..Len(d.fields)} =
            {a.name : a \in Fields(cls)} \ {N_model_config}
    /\ Len(d.fields) = Cardinality({a.name : a \in Fields(cls)} \ {N_model_config})
    /\ d.methods = HelperMethods

\* The threads that have obtained their descriptor.
Holding == {t \in Threads : frame[t].struct_cls # None}

\* C3: with threads constructing the same class concurrently, the descriptor in the
\* shared cache and the descriptor each thread obtains are fully built, any two
\* threads' descriptors are structurally equal even when both compiled and stored
\* one, and a thread that reaches the bulk decode holds an encoder and a decoder
\* built for its descriptor.
C3_NoPartialDescriptorOrCodec ==
    /\ \A c \in DOMAIN struct_class_cache :
            Complete(ClassOf(c), struct_class_cache[c])
    /\ \A t \in Holding : Complete(frame[t].cls, frame[t].struct_cls)
    /\ \A t, u \in Holding :
            frame[t].cls = frame[u].cls =>
                Structure(frame[t].struct_cls) = Structure(frame[u].struct_cls)
    /\ \A t \in Threads :
            pc[t] = "decode" =>
                /\ frame[t].encoder # None
                /\ frame[t].decoder # None
                /\ frame[t].decoder.type = frame[t].struct_cls.id

\* Two threads have each compiled and stored a descriptor of their own, and both
\* have reached the bulk decode with a codec.
C3_Witness ==
    /\ pc[1] = "decode" /\ pc[2] = "decode"
    /\ frame[1].struct_cls.id # frame[2].struct_cls.id
    /\ frame[1].decoder # frame[2].decoder

\* C4: in a sequential process, load_dotenv is called at most once for an absolute
\* path, whichever classes ask for it and however often.
C4_LoadedAtMostOnce ==
    \A k \in DOMAIN load_count : load_count[k] <= 1

\* Both classes have asked for the same absolute path, three requests in all, and
\* the file was loaded once.
C4_Witness ==
    /\ P_abs_dotenv \in DOMAIN requests
    /\ Len(requests[P_abs_dotenv]) = 3
    /\ Elements(requests[P_abs_dotenv]) = {"AppSettings", "WorkerSettings"}
    /\ Count(load_count, P_abs_dotenv) = 1

\* C5: with threads making their first env-sourced construction concurrently, the
\* env file of an absolute path is loaded into the environment at most once.
C5_LoadedOnceConcurrently ==
    \A k \in DOMAIN load_count : load_count[k] <= 1

\* C6: a construction with keyword overrides hands exactly the overrides to the bulk
\* decode: the environment and the loaded files are untouched, the env file is not
\* asked for, and a field that is not overridden takes its declared default.
C6_OverridesOnly ==
    [][ (Constructed /\ last'.kwargs # <<>>) =>
            /\ environ' = environ
            /\ loaded_env_files' = loaded_env_files
            /\ load_count' = load_count
            /\ requests' = requests
            /\ last'.decoded /\ last'.values = last'.kwargs
            /\ last'.out.ok =>
                \A a \in Fields(ClassOf(last'.cls)) :
                    last'.out.v.values[a.name] =
                        IF a.name \in Names(last'.kwargs)
                        THEN ValueOf(last'.kwargs, a.name)
                        ELSE ClassOf(last'.cls).attrs[a.name] ]_vars

\* AppSettings(app_name="x") succeeded with max_connections at its default while
\* MAX_CONNECTIONS is set and the env file exists, unloaded.
C6_Witness ==
    /\ last.op = "new" /\ last.cls = "AppSettings"
    /\ last.kwargs = << <<N_app_name, PyStr(S_x)>> >>
    /\ last.out.ok
    /\ last.out.v.values[N_max_connections] = PyInt(100)
    /\ E_MAX_CONNECTIONS \in DOMAIN environ
    /\ P_abs_dotenv \in DOMAIN fs
    /\ loaded_env_files = {}

\* The environment variable a field is read from, and what a raw string of the
\* model is worth for a field type, both written out.
EnvVarOf ==
    (N_app_name :> E_APP_NAME) @@ (N_debug :> E_DEBUG)
        @@ (N_max_connections :> E_MAX_CONNECTIONS)

Expected(raw, type) ==
    CASE type = T_str -> PyStr(raw)
      [] type = T_bool -> PyBool(raw \in {S_true, S_True})
      [] type = T_int /\ raw = S_200 -> PyInt(200)

\* C7: an env-sourced construction collects exactly the fields whose variable is
\* present; the instance holds the coerced value of each of them and the declared
\* default of every other field.
C7_EnvSourced ==
    [][ (Constructed /\ last'.kwargs = <<>> /\ last'.decoded) =>
            LET cls == ClassOf(last'.cls)
                present == {a \in Fields(cls) : EnvVarOf[a.name] \in DOMAIN environ'}
            IN  /\ Names(last'.values) = {a.name : a \in present}
                /\ last'.out.ok =>
                    \A a \in Fields(cls) :
                        last'.out.v.values[a.name] =
                            IF a \in present
                            THEN Expected(environ'[EnvVarOf[a.name]], a.type)
                            ELSE cls.attrs[a.name] ]_vars

\* WorkerSettings() with only MAX_CONNECTIONS=200 set: max_connections is 200 and
\* debug, whose variable is absent, is its default.
C7_Witness ==
    /\ last.op = "new" /\ last.cls = "WorkerSettings"
    /\ last.kwargs = <<>> /\ last.out.ok
    /\ DOMAIN environ = {E_MAX_CONNECTIONS}
    /\ last.values = << <<N_max_connections, PyInt(200)>> >>
    /\ last.out.v.values = (N_max_connections :> PyInt(200)) @@ (N_debug :> PyBool(TRUE))

\* What the codec calls the JSON form of a Python value.
JsonKind ==
    [str |-> "str", int |-> "int", bool |-> "bool", list |-> "array",
     dict |-> "object", None |-> "null"]

\* C8: when the value map handed to the bulk decode lacks a required field or holds
\* a value of the wrong type for a field, the construction raises a ValueError that
\* carries the offending field's name and the reason, and returns no instance;
\* otherwise it returns an instance.
C8_ValidationError ==
    (last.op = "new" /\ last.decoded) =>
        LET cls == ClassOf(last.cls)
            vals == last.values
            mistyped == {i \in 1..Len(vals) :
                            \E a \in Fields(cls) :
                                a.name = vals[i][1] /\ vals[i][2].t \notin Elements(a.type)}
            missing == {a.name : a \in {b \in Fields(cls) : b.name \notin DOMAIN cls.attrs}}
                            \ Names(vals)
        IN  IF mistyped = {} /\ missing = {}
            THEN last.out.ok
            ELSE /\ ~last.out.ok
                 /\ last.out.error.kind = "ValueError"
                 /\ last.out.error.msg = "Validation error"
                 /\ IF mistyped # {}
                    THEN \E i \in mistyped :
                            /\ last.out.error.cause.field = vals[i][1]
                            /\ last.out.error.cause.reason = <<"got", JsonKind[vals[i][2].t]>>
                    ELSE /\ last.out.error.cause.field \in missing
                         /\ last.out.error.cause.reason = <<"missing">>

\* AppSettings() with APP_NAME absent: the error names app_name as missing.
C8_Witness ==
    /\ last.op = "new" /\ last.cls = "AppSettings" /\ last.kwargs = <<>>
    /\ last.decoded /\ ~last.out.ok
    /\ last.out.error.cause = [field |-> N_app_name, reason |-> <<"missing">>]

\* C9, as claimed: a construction that fails leaves the environment, the schema
\* cache, the encoder and decoder caches and the loaded files as they were.
C9_FailureChangesNothing ==
    [][ (Constructed /\ ~last'.out.ok) =>
            UNCHANGED <<environ, struct_class_cache, encoder_cache, decoder_cache,
                        loaded_env_files>> ]_vars

\* Whether the call recorded in last' found everything it creates lazily in place.
Warm ==
    /\ last'.cls \in DOMAIN struct_class_cache
    /\ last'.decoded =>
          /\ last'.struct \in DOMAIN encoder_cache
          /\ last'.struct \in DOMAIN decoder_cache
    /\ last'.kwargs = <<>> =>
          \/ cache_key(ClassOf(last'.cls)) \in loaded_env_files
          \/ absolute(ClassOf(last'.cls).model_config.env_file) \notin DOMAIN fs

\* C9, amended: a construction that fails removes and replaces nothing, adds only
\* what a first use creates lazily (the class's descriptor, its encoder and decoder,
\* the env file's variables and path), and changes nothing when all of that was in
\* place already.
C9_FailureOnlyAddsLazyState ==
    [][ (Constructed /\ ~last'.out.ok) =>
            /\ Extends(struct_class_cache, struct_class_cache')
            /\ Extends(encoder_cache, encoder_cache')
            /\ Extends(decoder_cache, decoder_cache')
            /\ Extends(environ, environ')
            /\ loaded_env_files \subseteq loaded_env_files'
            /\ DOMAIN struct_class_cache' \ DOMAIN struct_class_cache \subseteq {last'.cls}
            /\ DOMAIN encoder_cache' \ DOMAIN encoder_cache \subseteq {last'.struct}
            /\ DOMAIN decoder_cache' \ DOMAIN decoder_cache \subseteq {last'.struct}
            /\ loaded_env_files' \ loaded_env_files
                    \subseteq {cache_key(ClassOf(last'.cls))}
            /\ environ' # environ => loaded_env_files' # loaded_env_files
            /\ last'.changed <=> ~Warm ]_vars

\* A failing construction that found everything in place and changed nothing.
C9_Witness ==
    /\ last.op = "new" /\ ~last.out.ok /\ ~last.changed
    /\ last.decoded /\ last.kwargs = <<>>
    /\ cache_key(ClassOf(last.cls)) \in loaded_env_files

\* C10, as claimed: the field values of an instance the application holds never
\* change.
C10_InstanceNeverChanges ==
    [][ held # None => held' = held ]_vars

\* C11: in a sequential process the encoder and the decoder of a schema are created
\* by the first construction that reaches the bulk decode, never by one that does
\* not reach it, and are never replaced or removed afterwards: every later
\* construction finds the same two objects in the caches.
C11_CodecCreatedOnce ==
    [][ /\ Extends(encoder_cache, encoder_cache')
        /\ Extends(decoder_cache, decoder_cache')
        /\ Constructed /\ last'.decoded =>
              /\ last'.struct \in DOMAIN encoder_cache'
              /\ last'.struct \in DOMAIN decoder_cache'
              /\ decoder_cache'[last'.struct].type = last'.struct
        /\ Constructed /\ ~last'.decoded =>
              /\ encoder_cache' = encoder_cache
              /\ decoder_cache' = decoder_cache ]_vars

\* A third construction reaches the bulk decode and changes nothing: it has found
\* the codec an earlier construction of the class created.
C11_Witness ==
    /\ calls = 3
    /\ last.op = "new" /\ last.decoded /\ ~last.changed
    /\ last.struct \in DOMAIN encoder_cache
    /\ last.struct \in DOMAIN decoder_cache

\* C12: a construction whose value map holds a name that is not a field of the
\* class fails with a validation error.
C12_UnknownNameRejected ==
    (last.op = "new" /\ last.decoded
        /\ \E n \in Names(last.values) :
                n \notin {a.name : a \in Fields(ClassOf(last.cls))})
    => (~last.out.ok /\ last.codec.error.kind = "ValidationError")

\* What the last construction was given for redis_url: the override, or the
\* variable of the environment.
GivenRedisUrl ==
    IF last.kwargs # <<>> THEN ValueOf(last.kwargs, N_redis_url)
    ELSE PyStr(environ[E_REDIS_URL])

\* C15: a construction that is given a raw string for a field declared as RedisDsn
\* succeeds exactly when RedisDsn accepts the string, and the field then holds
\* what the constructor returns.
C15_RoutedThroughConstructor ==
    (/\ last.op = "new" /\ last.cls = "CacheSettings"
     /\ last.kwargs # <<>> \/ E_REDIS_URL \in DOMAIN environ
     /\ GivenRedisUrl.t = "str") =>
        LET made == RedisDsn(GivenRedisUrl)
        IN  /\ last.out.ok <=> made.ok
            /\ last.out.ok => last.out.v.values[N_redis_url] = made.v

\* C23: the serialized text of a settings instance, decoded against the same
\* schema, gives back a value equal to the instance.
C23_RoundTrip ==
    output # None => output.decoded = Return(output.instance)

\* The fields of PoolSettings, in schema order, whose variable is set to a string
\* that is no number of the field's type.
Unparsable ==
    (IF E_RETRIES \in DOMAIN environ /\ ~py_int(environ[E_RETRIES]).ok
     THEN {[field |-> N_retries, raw |-> environ[E_RETRIES], target |-> "int"]} ELSE {})
    \cup
    (IF E_RATIO \in DOMAIN environ /\ ~py_float(environ[E_RATIO]).ok
     THEN {[field |-> N_ratio, raw |-> environ[E_RATIO], target |-> "float"]} ELSE {})

\* C24: an env-sourced construction that meets an unparsable value of an int or
\* float field fails, with an error that carries the field's name, the raw string
\* and the target type.
C24_CoercionErrorNamesField ==
    (last.op = "new" /\ last.cls = "PoolSettings" /\ Unparsable # {}) =>
        /\ ~last.out.ok
        /\ last.out.error.cause \in Unparsable

\* The alternatives of a declared type other than None.
NonNull(field_type) == SelectSeq(field_type, LAMBDA a : a \notin {"None", "|"})

IsUnion(field_type) == Len(field_type) > 1

\* C25: a raw value for a field declared as a union is coerced as for the union's
\* only non-null alternative; when the union has more than one, the raw string is
\* returned unchanged.
C25_UnionUnwrapped ==
    (output # None /\ IsUnion(input.field_type)) =>
        IF Len(NonNull(input.field_type)) = 1
        THEN output = _preprocess_env_value(input.env_value, NonNull(input.field_type))
        ELSE output = Return(PyStr(input.env_value))

\* The fields of TagSettings in schema order, with their variables.
TagFields ==
    << [name |-> N_count, env |-> E_COUNT, type |-> T_int],
       [name |-> N_flag, env |-> E_FLAG, type |-> T_bool],
       [name |-> N_tags, env |-> E_TAGS, type |-> T_list],
       [name |-> N_label, env |-> E_LABEL, type |-> T_opt_str] >>

\* The fields whose raw value begins with "{" or "[".
Composite ==
    {j \in 1..Len(TagFields) :
        /\ TagFields[j].env \in DOMAIN environ
        /\ environ[TagFields[j].env] # <<>>
        /\ environ[TagFields[j].env][1] \in {"{", "["}}

Typed(j) == TagFields[j].type \in {T_bool, T_int, T_float}

\* Whether coercion of field j fails: a malformed literal, or no integer.
Fails(j) ==
    /\ TagFields[j].env \in DOMAIN environ
    /\ IF TagFields[j].type = T_int THEN ~py_int(environ[TagFields[j].env]).ok
       ELSE /\ j \in Composite /\ ~Typed(j)
            /\ ~json_decode(environ[TagFields[j].env]).ok

\* C26 (as stated): every raw value that begins with "{" or "[" reaches the bulk
\* decode as the list or mapping it denotes, and when it is malformed the
\* construction fails.
C26_CompositeParsed ==
    (last.op = "new" /\ last.cls = "TagSettings") =>
        \A j \in Composite :
            LET parsed == json_decode(environ[TagFields[j].env])
            IN  /\ ~parsed.ok => ~last.out.ok
                /\ (parsed.ok /\ last.decoded) =>
                        ValueOf(last.values, TagFields[j].name) = parsed.v

\* C26 (amended): for a field that is not bool, int or float, a raw value that
\* begins with "{" or "[" reaches the bulk decode as the list or mapping it denotes,
\* never as the raw string; when it is malformed the construction fails before
\* the bulk decode, with the error that wraps the parse failure if no earlier field
\* failed. For a bool or int field the typed rule applies instead: the value that
\* reaches the decode is a bool or an int.
C26_CompositeParsedUnlessTyped ==
    (last.op = "new" /\ last.cls = "TagSettings") =>
        \A j \in Composite :
            LET raw == environ[TagFields[j].env]
                parsed == json_decode(raw)
                passed == ValueOf(last.values, TagFields[j].name)
            IN  /\ last.decoded => passed # PyStr(raw)
                /\ (last.decoded /\ Typed(j)) => passed.t \in {"bool", "int"}
                /\ (last.decoded /\ ~Typed(j)) =>
                        parsed.ok /\ passed = parsed.v /\ passed.t \in {"list", "dict"}
                /\ (~Typed(j) /\ ~parsed.ok) =>
                        /\ ~last.out.ok /\ ~last.decoded
                        /\ (\A k \in 1..(j - 1) : ~Fails(k)) =>
                              last.out = Raise("ValueError", "Invalid JSON in env var",
                                               [decode_error |-> JsonError])

\* TAGS=[1, has failed the construction with the error wrapping the parse failure,
\* although FLAG=[1, had been coerced before it.
C26_Witness ==
    /\ last.op = "new" /\ last.cls = "TagSettings"
    /\ E_TAGS \in DOMAIN environ /\ environ[E_TAGS] = S_open_list
    /\ E_FLAG \in DOMAIN environ /\ environ[E_FLAG] = S_open_list
    /\ E_COUNT \notin DOMAIN environ
    /\ ~last.decoded
    /\ last.out = Raise("ValueError", "Invalid JSON in env var", [decode_error |-> JsonError])

\* The declared types that the coercer handles by a typed rule: bool, int or
\* float, alone or as the only non-null alternative of a typing.Union.
TypedRule ==
    [bool |-> {T_bool, T_opt_bool}, int |-> {T_int, T_opt_int},
     float |-> {T_float, T_opt_float}]

FileOfCall == absolute(ClassOf(last'.cls).model_config.env_file)

\* C29: an env-sourced construction loads the class's env file exactly when the
\* path is not yet recorded as loaded and the file exists at that moment; it then
\* records the path and sets the variables the environment does not have. When the
\* file is missing it records nothing, so a later construction checks again; when
\* the path is recorded it loads nothing, whatever the file now holds. Nothing but
\* an env-sourced construction loads or records.
C29_MissingFileRechecked ==
    [][ IF Constructed /\ last'.kwargs = <<>>
        THEN IF FileOfCall \notin loaded_env_files /\ FileOfCall \in DOMAIN fs
             THEN /\ loaded_env_files' = loaded_env_files \cup {FileOfCall}
                  /\ Count(load_count', FileOfCall) = Count(load_count, FileOfCall) + 1
                  /\ DOMAIN environ' = DOMAIN environ \cup DOMAIN fs[FileOfCall]
                  /\ \A n \in DOMAIN environ' :
                        environ'[n] = IF n \in DOMAIN environ THEN environ[n]
                                      ELSE fs[FileOfCall][n]
             ELSE /\ loaded_env_files' = loaded_env_files
                  /\ load_count' = load_count
                  /\ environ' = environ
        ELSE /\ loaded_env_files' = loaded_env_files
             /\ load_count' = load_count ]_vars

\* An env-sourced construction has run and failed while the file was missing; the
\* path is not recorded, and the file has since been written.
C29_Witness ==
    /\ last.op = "new" /\ last.kwargs = <<>> /\ ~last.out.ok
    /\ P_abs_dotenv \in DOMAIN requests
    /\ P_abs_dotenv \notin loaded_env_files
    /\ P_abs_dotenv \in DOMAIN fs

\* The fields of OrderSettings in schema order: the required ones as declared,
\* then the defaulted one, which is declared first.
OrderFields ==
    << [name |-> N_tags, env |-> E_TAGS, type |-> T_list],
       [name |-> N_count, env |-> E_COUNT, type |-> T_int],
       [name |-> N_limit, env |-> E_LIMIT, type |-> T_int] >>

\* What the coercer makes of field j in the environment env.
Coerced(env, j) == _preprocess_env_value(env[OrderFields[j].env], OrderFields[j].type)

\* C30: an env-sourced construction first loads the env file, then coerces the
\* variables of the fields in schema order, required fields first, from the
\* environment as the load left it, then decodes the value map once with a cached
\* encoder and decoder. When a coercion fails, the decode does not run, the call
\* creates no encoder and no decoder, and the error is that of the first failing
\* field in schema order.
C30_StepsInOrder ==
    [][ (Constructed /\ last'.kwargs = <<>>) =>
            LET set == {j \in 1..Len(OrderFields) : OrderFields[j].env \in DOMAIN environ'}
                failing == {j \in set : ~Coerced(environ', j).ok}
                collected == SelectSeq([j \in 1..Len(OrderFields) |-> j], LAMBDA j : j \in set)
            IN  /\ (P_abs_dotenv \in DOMAIN fs /\ P_abs_dotenv \notin loaded_env_files) =>
                      /\ P_abs_dotenv \in loaded_env_files'
                      /\ DOMAIN fs[P_abs_dotenv] \subseteq DOMAIN environ'
                /\ IF failing = {}
                   THEN /\ last'.decoded
                        /\ last'.values =
                              [i \in 1..Len(collected) |->
                                  <<OrderFields[collected[i]].name,
                                    Coerced(environ', collected[i]).v>>]
                        /\ last'.codec = decode(struct_class_cache'[last'.cls],
                                                encode(last'.values))
                        /\ last'.struct \in DOMAIN encoder_cache'
                        /\ last'.struct \in DOMAIN decoder_cache'
                   ELSE /\ ~last'.decoded
                        /\ encoder_cache' = encoder_cache
                        /\ decoder_cache' = decoder_cache
                        /\ last'.out = Coerced(environ', Min(failing)) ]_vars

\* The first construction has loaded the file and failed on COUNT=abc, which the
\* file brought, although LIMIT=x belongs to the field declared first; no codec
\* was created.
C30_Witness ==
    /\ last.op = "new" /\ last.cls = "OrderSettings" /\ calls = 1
    /\ P_abs_dotenv \in loaded_env_files
    /\ fs[P_abs_dotenv] = (E_COUNT :> S_abc) @@ (E_LIMIT :> S_x)
    /\ environ = (E_TAGS :> S_list) @@ (E_COUNT :> S_abc) @@ (E_LIMIT :> S_x)
    /\ last.out = Raise("ValueError", "Cannot convert to int",
                        [raw |-> S_abc, target |-> "int"])
    /\ ~last.decoded /\ encoder_cache = <<>> /\ decoder_cache = <<>>

====
